---- MODULE Spec2Model ----
(***************************************************************************)
(* A model of the liquidity-mining payout state machine                    *)
(* (src/src/payouts/payer.py, src/src/contract/disperse.py) and of the     *)
(* per-block reward engine (src/src/syncer/rewards.py).                    *)
(*                                                                         *)
(* The relational store is modelled by its tables: a table is a sequence   *)
(* of rows in insertion order.  A database session commits or discards as  *)
(* a whole.  The chain is modelled by the list of submitted disperse       *)
(* transactions; a transaction hash is the position of the submission in   *)
(* that list.                                                              *)
(***************************************************************************)
EXTENDS Integers, Sequences, FiniteSets, TLC

(***************************************************************************)
(* Bounds of the model.                                                    *)
(***************************************************************************)
\* disperse_token calls that reach the chain in one behaviour
MaxSubmissions == 2
\* largest cached nonce for which run() is still explored
MaxNonce == 4
\* largest MatureMiningReward.mcb_balance of a holder
MaxMature == 2

Holders == {"h1", "h2"}
\* the order in which the model keeps the rows of a table; the queries
\* without ORDER BY return them in any order (Orderings, UnpaidOrders)
HolderOrder == <<"h1", "h2">>

\* config.MINING_ROUND, and an earlier round whose rows are still stored
MINING_ROUND == "HAN"
EarlierRound == "QIN"
RoundOrder == <<"QIN", "HAN">>

\* PaymentTransaction.INIT / PENDING / SUCCESS / FAILED
INIT == "INIT"
PENDING == "PENDING"
SUCCESS == "SUCCESS"
FAILED == "FAILED"

VARIABLES
    \* ---- payer process
    nonce,                  \* Payer.nonce, the cached nonce
    pc,                     \* position of the payer inside run(); "idle" between cycles
    pending_transactions,   \* _check_pending_transactions: rows still to reconcile
    unpaid_rewards,         \* run(): the local unpaid_rewards
    tx_hash,                \* run(): the local tx_hash
    \* ---- tables
    payment_transactions,
    payments,
    round_payments,
    mature_mining_rewards,
    \* ---- chain
    chain,                  \* submitted disperse_token transactions, hash = index
    ether_transactions,     \* submitted disperse_ether transactions of the account
    \* ---- history of the current cycle (for the claims only)
    cycle

payer_vars == <<nonce, pc, pending_transactions, unpaid_rewards, tx_hash,
                payment_transactions, payments, round_payments,
                mature_mining_rewards, chain, ether_transactions, cycle>>

VARIABLES
    \* ---- reward engine: one ShareMining instance
    begin_block,                        \* ShareMining._begin_block
    end_block,                          \* ShareMining._end_block
    mining_round,                       \* ShareMining._mining_round
    reward_per_block,                   \* ShareMining._reward_per_block
    \* ---- tables written by the engine
    immature_mining_rewards,
    immature_mining_reward_summaries,
    theory_mining_rewards,
    \* ---- tables the engine reads (written by the chain-event watcher)
    token_balances,
    position_balances,
    perp_share_amm_proxy_map,
    chain_link_price_events,
    \* ---- history of the engine calls (for the claims only)
    call,                               \* the last sync / rollback call
    trip                                \* the watcher's walk over the blocks

engine_vars == <<begin_block, end_block, mining_round, reward_per_block, immature_mining_rewards,
                 immature_mining_reward_summaries, theory_mining_rewards,
                 token_balances, position_balances, perp_share_amm_proxy_map,
                 chain_link_price_events, call, trip>>

vars == <<payer_vars, engine_vars>>

(***************************************************************************)
(* Helpers on sequences.                                                   *)
(***************************************************************************)
RECURSIVE SeqSum(_)
SeqSum(s) == IF s = <<>> THEN 0 ELSE Head(s) + SeqSum(Tail(s))

RECURSIVE Flatten(_)
Flatten(ss) == IF ss = <<>> THEN <<>> ELSE Head(ss) \o Flatten(Tail(ss))

Range(s) == {s[i] : i \in 1..Len(s)}

(***************************************************************************)
(* model.PaymentTransaction.transaction_status: the status a row takes     *)
(* from a status code.  payer.py calls it twice: with 0 on the new row     *)
(* object before the insert (line 102) and with the status of the receipt, *)
(* 1 or 0, on the stored row (line 116).  The statuses are those of the    *)
(* data model: the payer "creates PaymentTransaction in INIT", "transitions*)
(* to SUCCESS or FAILED upon receipt" and writes the Payment rows "only on *)
(* SUCCESS".  The code 0 is passed in both calls, so it gives INIT to a    *)
(* row that has no status yet and FAILED to a stored row.  PENDING is a    *)
(* status of the data model that neither call gives: payer.py has no call  *)
(* between the insert and the receipt.                                     *)
(***************************************************************************)
transaction_status(current, code) ==
    IF code = 1 THEN SUCCESS
    ELSE IF current = "NONE" THEN INIT
    ELSE FAILED

(***************************************************************************)
(* The materialized view round_payment_summaries: one row per              *)
(* (mining_round, holder) that has a RoundPayment, paid_amount its sum.    *)
(***************************************************************************)
PaidAmount(rps, r, h) ==
    SeqSum([i \in 1..Len(rps) |->
              IF rps[i].mining_round = r /\ rps[i].holder = h
              THEN rps[i].amount ELSE 0])

RoundPaymentSummary(rps) ==
    Flatten([i \in 1..Len(RoundOrder) |->
      Flatten([j \in 1..Len(HolderOrder) |->
        IF \E k \in 1..Len(rps) : /\ rps[k].mining_round = RoundOrder[i]
                                  /\ rps[k].holder = HolderOrder[j]
        THEN << [mining_round |-> RoundOrder[i], holder |-> HolderOrder[j],
                 paid_amount |-> PaidAmount(rps, RoundOrder[i], HolderOrder[j])] >>
        ELSE <<>>])])

(***************************************************************************)
(* Payer._init_payer_nonce                                                 *)
(***************************************************************************)
MaxTransactionNonce(txs) ==
    CHOOSE n \in {txs[i].transaction_nonce : i \in 1..Len(txs)} :
        \A i \in 1..Len(txs) : txs[i].transaction_nonce <= n

\* web3.eth getTransactionCount(PAYER_ADDRESS): the mined transactions of the
\* account, those of disperse_token (ch) and those of disperse_ether (eth)
TransactionCount(ch, eth) ==
    Cardinality({i \in 1..Len(ch) : ch[i].status # "unmined"})
    + Cardinality({e \in eth : e.status # "unmined"})

\* a variant that starts again from the stored nonce itself
init_payer_nonce_reuse(txs, count) ==
    IF txs = <<>> THEN count + 1
    ELSE MaxTransactionNonce(txs) - 1

init_payer_nonce(txs, count) ==
    IF txs = <<>> THEN count + 1
    ELSE MaxTransactionNonce(txs) + 1

\* a query without ORDER BY: the orders the store may return its rows in
Perms(n) ==
    {q \in [1..n -> 1..n] : \A i, j \in 1..n : i # j => q[i] # q[j]}

Orderings(rows) ==
    {[i \in 1..Len(rows) |-> rows[p[i]]] : p \in Perms(Len(rows))}

(***************************************************************************)
(* Payer._get_miner_unpaid_reward: the outer join of MatureMiningReward    *)
(* with RoundPaymentSummary on the holder alone, filtered to the           *)
(* configured round.  A mature row without a summary row is joined with    *)
(* paid_amount None, for which the subtraction raises.  The query has no   *)
(* ORDER BY: JoinedItems lists the joined rows in one order and            *)
(* UnpaidOrders gives the results for every order the store may return     *)
(* them in (the loop keeps the order of the rows).                         *)
(***************************************************************************)
JoinedItems(mature, summary) ==
    Flatten([i \in 1..Len(mature) |->
      IF mature[i].mining_round # MINING_ROUND THEN <<>>
      ELSE LET m == mature[i]
               hit == SelectSeq(summary, LAMBDA s : s.holder = m.holder)
           IN  IF hit = <<>>
               THEN << [holder |-> m.holder, mcb_balance |-> m.mcb_balance,
                        paid_is_none |-> TRUE, paid_amount |-> 0] >>
               ELSE [k \in 1..Len(hit) |->
                        [holder |-> m.holder, mcb_balance |-> m.mcb_balance,
                         paid_is_none |-> FALSE,
                         paid_amount |-> hit[k].paid_amount]]])

\* Wad(unpaid): the amount in wire units
Wad(unpaid) == unpaid

get_miner_unpaid_reward(mature, summary) ==
    LET items == JoinedItems(mature, summary)
    IN  IF \E i \in 1..Len(items) : items[i].paid_is_none
        THEN [raised |-> TRUE, miners |-> <<>>, amounts |-> <<>>]
        ELSE LET due == SelectSeq(items,
                          LAMBDA it : it.mcb_balance - it.paid_amount > 0)
             IN  [raised |-> FALSE,
                  miners |-> [k \in 1..Len(due) |-> due[k].holder],
                  amounts |-> [k \in 1..Len(due) |->
                                 Wad(due[k].mcb_balance - due[k].paid_amount)]]

UnpaidOrders(u) ==
    {[miners |-> [k \in 1..Len(u.miners) |-> u.miners[p[k]]],
      amounts |-> [k \in 1..Len(u.miners) |-> u.amounts[p[k]]]] :
        p \in Perms(Len(u.miners))}

(***************************************************************************)
(* Payer._save_payment_transaction: the row that is added and committed.   *)
(***************************************************************************)
NewPaymentTransaction(txs, n, hash, miners, amounts) ==
    [id |-> Len(txs) + 1,
     transaction_nonce |-> n,
     transaction_hash |-> hash,
     miners |-> miners,
     amounts |-> amounts,
     status |-> transaction_status("NONE", 0)]

save_payment_transaction(txs, n, hash, miners, amounts, db_ok) ==
    IF db_ok THEN Append(txs, NewPaymentTransaction(txs, n, hash, miners, amounts))
    ELSE txs

(***************************************************************************)
(* Payer._save_payments_info: the committed tables after the call.         *)
(* The RoundPayment object is built but never added to the session, so no  *)
(* RoundPayment row is stored.                                             *)
(***************************************************************************)
FirstWithHash(txs, hash) ==
    IF \E i \in 1..Len(txs) : txs[i].transaction_hash = hash
    THEN CHOOSE i \in 1..Len(txs) :
            /\ txs[i].transaction_hash = hash
            /\ \A j \in 1..(i - 1) : txs[j].transaction_hash # hash
    ELSE 0

PaymentRows(pays, miners, amounts, pt) ==
    [i \in 1..Len(miners) |->
        [id |-> Len(pays) + i, holder |-> miners[i], amount |-> amounts[i],
         transaction_id |-> pt.id]]

\* a variant that writes the Payment rows once any receipt was seen
NewPayments_on_receipt(pays, miners, amounts, pt) ==
    IF pt.status # INIT THEN PaymentRows(pays, miners, amounts, pt)
    ELSE <<>>

\* a variant that writes the Payment rows whatever the status
NewPayments_any_status(pays, miners, amounts, pt) ==
    PaymentRows(pays, miners, amounts, pt)

NewPayments(pays, miners, amounts, pt) ==
    IF pt.status = SUCCESS THEN PaymentRows(pays, miners, amounts, pt)
    ELSE <<>>

save_payments_info(txs, pays, rps, hash, receipt_status, miners, amounts, db_ok) ==
    LET i == FirstWithHash(txs, hash)
    IN  IF i = 0 \/ ~db_ok
        THEN [payment_transactions |-> txs, payments |-> pays, round_payments |-> rps]
        ELSE LET pt == [txs[i] EXCEPT !.status =
                            transaction_status(txs[i].status, receipt_status)]
             IN  [payment_transactions |-> [txs EXCEPT ![i] = pt],
                  payments |-> pays \o NewPayments(pays, miners, amounts, pt),
                  round_payments |-> rps]

(***************************************************************************)
(* Payer.run, lines 169-170: where run() continues after                   *)
(* _check_pending_transactions returned ok.                                *)
(***************************************************************************)
\* a variant that ignores the result of the reconcile phase
run_after_check_ignored(ok) == "pay"

run_after_check(ok) == IF ok THEN "pay" ELSE "idle"

\* Payer._check_pending_transactions: the rows selected for reconciliation
PendingRows(txs) ==
    SelectSeq(txs, LAMBDA t : t.status \in {INIT, PENDING})

NoCycle == [running |-> FALSE, reconcile_error |-> FALSE,
            nonce0 |-> 0, chain0 |-> 0, txs0 |-> 0]

(***************************************************************************)
(* Initial state of the payer: a first start on an empty store and an      *)
(* unused account.  The tables the payer only reads are given: the mature  *)
(* rewards and the RoundPayment rows behind round_payment_summaries, which *)
(* no code of the repository writes (a row records what another writer     *)
(* paid the holder for a round).                                           *)
(***************************************************************************)
RoundHolders == {EarlierRound, MINING_ROUND} \X Holders

\* -1: no row, 1: a row of amount 1.  The holders are interchangeable (the
\* queries return their rows in every order), so h2 has a row only where h1
\* has one.
SeedChoices ==
    {seed \in [RoundHolders -> {-1, 1}] :
        \A r \in {EarlierRound, MINING_ROUND} :
            seed[<<r, "h2">>] \in {-1, seed[<<r, "h1">>]}}

SeededRoundPayments(seed) ==
    LET pairs == SelectSeq(
                    Flatten([i \in 1..Len(RoundOrder) |->
                       [j \in 1..Len(HolderOrder) |-> <<RoundOrder[i], HolderOrder[j]>>]]),
                    LAMBDA p : seed[p] >= 0)
    IN  [k \in 1..Len(pairs) |->
            [mining_round |-> pairs[k][1], holder |-> pairs[k][2],
             amount |-> seed[pairs[k]], payment_id |-> 0]]

MatureRows(m) ==
    << [mining_round |-> EarlierRound, holder |-> "h1", mcb_balance |-> MaxMature] >>
    \o SelectSeq([j \in 1..Len(HolderOrder) |->
                     [mining_round |-> MINING_ROUND, holder |-> HolderOrder[j],
                      mcb_balance |-> m[HolderOrder[j]]]],
                  LAMBDA r : r.mcb_balance > 0)

PayerInit ==
    \E seed \in SeedChoices, m \in [Holders -> 0..MaxMature] :
        \* what was paid for the round had matured
        /\ \A h \in Holders : seed[<<MINING_ROUND, h>>] <= m[h]
        /\ payment_transactions = <<>>
        /\ payments = <<>>
        /\ round_payments = SeededRoundPayments(seed)
        /\ mature_mining_rewards = MatureRows(m)
        /\ chain = <<>>
        /\ ether_transactions = {}
        /\ nonce = init_payer_nonce(<<>>, 0)
        /\ pc = "idle"
        /\ pending_transactions = <<>>
        /\ unpaid_rewards = [miners |-> <<>>, amounts |-> <<>>]
        /\ tx_hash = 0
        /\ cycle = NoCycle

(***************************************************************************)
(* Payer.run, step by step.  A step ends where run() waits for the chain   *)
(* or returns.                                                             *)
(***************************************************************************)
tables == <<payment_transactions, payments, round_payments, mature_mining_rewards>>

NoUnpaid == [miners |-> <<>>, amounts |-> <<>>]

\* run() is entered: _check_pending_transactions reads the INIT/PENDING rows
RunStart ==
    /\ pc = "idle"
    /\ nonce < MaxNonce
    /\ pc' = "check"
    /\ pending_transactions' \in Orderings(PendingRows(payment_transactions))
    /\ cycle' = [running |-> TRUE, reconcile_error |-> FALSE, nonce0 |-> nonce,
                 chain0 |-> Len(chain), txs0 |-> Len(payment_transactions)]
    /\ UNCHANGED <<nonce, unpaid_rewards, tx_hash, tables, chain, ether_transactions,
                   engine_vars>>

\* one iteration of the loop of _check_pending_transactions whose wait raises
CheckPendingError ==
    /\ pc = "check"
    /\ pending_transactions # <<>>
    /\ pc' = run_after_check(FALSE)
    /\ pending_transactions' = <<>>
    /\ cycle' = [cycle EXCEPT !.reconcile_error = TRUE]
    /\ UNCHANGED <<nonce, unpaid_rewards, tx_hash, tables, chain, ether_transactions,
                   engine_vars>>

\* one iteration of the loop whose wait returns the receipt
CheckPendingReceipt ==
    /\ pc = "check"
    /\ pending_transactions # <<>>
    /\ LET t == Head(pending_transactions)
       IN  /\ chain[t.transaction_hash].status # "unmined"
           /\ \E db_ok \in BOOLEAN :
                LET receipt_status ==
                        IF chain[t.transaction_hash].status = "success" THEN 1 ELSE 0
                    db == save_payments_info(payment_transactions, payments,
                              round_payments, t.transaction_hash, receipt_status,
                              t.miners, t.amounts, db_ok)
                IN  /\ payment_transactions' = db.payment_transactions
                    /\ payments' = db.payments
                    /\ round_payments' = db.round_payments
    /\ pending_transactions' = Tail(pending_transactions)
    /\ UNCHANGED <<nonce, pc, unpaid_rewards, tx_hash, mature_mining_rewards,
                   chain, ether_transactions, cycle,
                   engine_vars>>

\* the loop is over: _check_pending_transactions returns True
CheckPendingDone ==
    /\ pc = "check"
    /\ pending_transactions = <<>>
    /\ pc' = run_after_check(TRUE)
    /\ UNCHANGED <<nonce, pending_transactions, unpaid_rewards, tx_hash, tables,
                   chain, ether_transactions, cycle,
                   engine_vars>>

Unpaid == get_miner_unpaid_reward(mature_mining_rewards,
                                  RoundPaymentSummary(round_payments))

\* run(), lines 173-176: _get_miner_unpaid_reward raises, or nobody is unpaid
PayNothing ==
    /\ pc = "pay"
    /\ Unpaid.raised \/ Len(Unpaid.miners) = 0
    /\ pc' = "idle"
    /\ cycle' = NoCycle
    /\ UNCHANGED <<nonce, pending_transactions, unpaid_rewards, tx_hash, tables, chain, ether_transactions,
                   engine_vars>>

\* run(), lines 173-188: the nonce is bumped and disperse_token raises
PayDisperseRaises ==
    /\ pc = "pay"
    /\ ~Unpaid.raised /\ Len(Unpaid.miners) > 0
    /\ nonce' = nonce + 1
    /\ pc' = "idle"
    /\ cycle' = NoCycle
    /\ UNCHANGED <<pending_transactions, unpaid_rewards, tx_hash, tables, chain, ether_transactions,
                   engine_vars>>

\* the submissions of this behaviour
Submitted(ch) == Len(ch)

\* run(), lines 173-185: the nonce is bumped, disperse_token returns the hash
\* of the submitted transaction and _save_payment_transaction stores the row
\* or fails to
PaySubmit ==
    /\ pc = "pay"
    /\ ~Unpaid.raised /\ Len(Unpaid.miners) > 0
    /\ Submitted(chain) < MaxSubmissions
    /\ nonce' = nonce + 1
    /\ \E u \in UnpaidOrders(Unpaid), db_ok \in BOOLEAN :
         /\ chain' = Append(chain, [nonce |-> nonce + 1,
                                    miners |-> u.miners,
                                    amounts |-> u.amounts,
                                    status |-> "unmined"])
         /\ unpaid_rewards' = u
         /\ payment_transactions' =
               save_payment_transaction(payment_transactions, nonce + 1,
                   Len(chain) + 1, u.miners, u.amounts, db_ok)
    /\ tx_hash' = Len(chain) + 1
    /\ pc' = "wait"
    /\ UNCHANGED <<pending_transactions, payments, round_payments,
                   mature_mining_rewards, ether_transactions, cycle,
                   engine_vars>>

\* run(), lines 190-196: the wait raises
WaitReceiptError ==
    /\ pc = "wait"
    /\ pc' = "idle"
    /\ unpaid_rewards' = NoUnpaid
    /\ tx_hash' = 0
    /\ cycle' = NoCycle
    /\ UNCHANGED <<nonce, pending_transactions, tables, chain, ether_transactions,
                   engine_vars>>

\* run(), lines 190-192: the wait returns the receipt
WaitReceipt ==
    /\ pc = "wait"
    /\ chain[tx_hash].status # "unmined"
    /\ \E db_ok \in BOOLEAN :
         LET receipt_status == IF chain[tx_hash].status = "success" THEN 1 ELSE 0
             db == save_payments_info(payment_transactions, payments,
                       round_payments, tx_hash, receipt_status,
                       unpaid_rewards.miners, unpaid_rewards.amounts, db_ok)
         IN  /\ payment_transactions' = db.payment_transactions
             /\ payments' = db.payments
             /\ round_payments' = db.round_payments
    /\ pc' = "idle"
    /\ unpaid_rewards' = NoUnpaid
    /\ tx_hash' = 0
    /\ cycle' = NoCycle
    /\ UNCHANGED <<nonce, pending_transactions, mature_mining_rewards, chain, ether_transactions,
                   engine_vars>>

\* the process is stopped anywhere and started again: Payer.__init__
Restart ==
    /\ pc' = "idle"
    /\ nonce' = init_payer_nonce(payment_transactions, TransactionCount(chain, ether_transactions))
    /\ pending_transactions' = <<>>
    /\ unpaid_rewards' = NoUnpaid
    /\ tx_hash' = 0
    /\ cycle' = NoCycle
    /\ UNCHANGED <<tables, chain, ether_transactions,
                   engine_vars>>

\* the nonces taken by mined transactions of the account
MinedNonces(ch, eth) ==
    {ch[i].nonce : i \in {k \in 1..Len(ch) : ch[k].status # "unmined"}}
    \cup {e.nonce : e \in {x \in eth : x.status # "unmined"}}

\* the chain includes a submitted disperse_token transaction in a block; a
\* nonce is consumed by at most one transaction of the account
Mine ==
    \E i \in 1..Len(chain), st \in {"success", "failed"} :
        /\ chain[i].status = "unmined"
        /\ chain[i].nonce \notin MinedNonces(chain, ether_transactions)
        /\ chain' = [chain EXCEPT ![i].status = st]
        /\ UNCHANGED <<nonce, pc, pending_transactions, unpaid_rewards, tx_hash,
                       tables, ether_transactions, cycle,
                       engine_vars>>

\* transactions of disperse_ether in one behaviour
MaxEther == 1

\* the nonce a caller of disperse_ether passes: that of the payer's first
\* submission on an unused account
EtherNonces == {init_payer_nonce(<<>>, 0) + 1}

\* Disperse.disperse_ether: a transaction of the payer account with the
\* nonce the caller chose; the payer process does not see it
DisperseEther ==
    \E n \in EtherNonces :
        /\ Cardinality(ether_transactions) < MaxEther
        /\ \A e \in ether_transactions : e.nonce # n
        /\ ether_transactions' =
              ether_transactions \cup {[nonce |-> n, status |-> "unmined"]}
        /\ UNCHANGED <<nonce, pc, pending_transactions, unpaid_rewards, tx_hash,
                       tables, chain, cycle, engine_vars>>

\* the chain includes a disperse_ether transaction in a block
MineEther ==
    \E e \in ether_transactions :
        /\ e.status = "unmined"
        /\ e.nonce \notin MinedNonces(chain, ether_transactions)
        /\ ether_transactions' =
              (ether_transactions \ {e}) \cup {[e EXCEPT !.status = "mined"]}
        /\ UNCHANGED <<nonce, pc, pending_transactions, unpaid_rewards, tx_hash,
                       tables, chain, cycle, engine_vars>>

PayerNext ==
    \/ RunStart
    \/ CheckPendingError
    \/ CheckPendingReceipt
    \/ CheckPendingDone
    \/ PayNothing
    \/ PayDisperseRaises
    \/ PaySubmit
    \/ WaitReceiptError
    \/ WaitReceipt
    \/ Restart
    \/ Mine
    \/ DisperseEther
    \/ MineEther

(***************************************************************************)
(* The reward engine: src/src/syncer/rewards.py, class ShareMining.         *)
(*                                                                         *)
(* Amounts are fixed-point numbers.  The program keeps 18 fractional       *)
(* digits in a Wad and at least 28 significant digits in a Decimal; the    *)
(* model keeps WadDigits fractional digits in both, an amount being the    *)
(* integer amount * 10^WadDigits, and truncates products and quotients at   *)
(* that scale.                                                             *)
(***************************************************************************)
\* blocks of the mining window before the first block of the override range
WindowBefore == 2
\* blocks outside the mining window, on each side, that sync is called with
WindowMargin == 1

WadDigits == 4
WadScale == 10 ^ WadDigits

Abs(x) == IF x < 0 THEN 0 - x ELSE x

\* floor(r * 10^k / b) for 0 <= r < b, digit by digit
RECURSIVE LongDiv(_, _, _)
LongDiv(r, b, k) ==
    IF k = 0 THEN 0
    ELSE ((r * 10) \div b) * (10 ^ (k - 1)) + LongDiv((r * 10) % b, b, k - 1)

\* Wad.__mul__ and Decimal multiplication: the product, rounded down
WadMulAbs(a, b) ==
    LET a1 == a \div WadScale   a0 == a % WadScale
        b1 == b \div WadScale   b0 == b % WadScale
    IN  a1 * b1 * WadScale + a1 * b0 + a0 * b1 + ((a0 * b0) \div WadScale)

WadMul(a, b) ==
    IF (a < 0) = (b < 0) THEN WadMulAbs(Abs(a), Abs(b))
    ELSE 0 - WadMulAbs(Abs(a), Abs(b))

\* Wad.__truediv__ and Decimal division, b # 0: the quotient, rounded down
WadDivAbs(a, b) == (a \div b) * WadScale + LongDiv(a % b, b, WadDigits)

WadDiv(a, b) ==
    IF (a < 0) = (b < 0) THEN WadDivAbs(Abs(a), Abs(b))
    ELSE 0 - WadDivAbs(Abs(a), Abs(b))

\* Decimal(n) and Wad.from_number(n) of a whole number n
Dec(n) == n * WadScale

\* Wad.from_number(d) of a Decimal d, and Decimal(str(w)) of a Wad w: the
\* model's Decimal has no digit beyond the Wad's, the value is kept
Wad_from_number(d) == d

Decimal_of_wad(w) == w

(***************************************************************************)
(* config: addresses, fork thresholds and factor constants.                *)
(***************************************************************************)
ETH_PERP_SHARE_TOKEN_ADDRESS == "eth_perp_share"
LINK_PERP_SHARE_TOKEN_ADDRESS == "link_perp_share"
COMP_PERP_SHARE_TOKEN_ADDRESS == "comp_perp_share"
LEND_PERP_SHARE_TOKEN_ADDRESS == "lend_perp_share"
SNX_PERP_SHARE_TOKEN_ADDRESS == "snx_perp_share"
BTC_PERP_SHARE_TOKEN_ADDRESS == "btc_perp_share"
UNISWAP_MCB_ETH_SHARE_TOKEN_ADDRESS == "uniswap_mcb_eth_share"
UNISWAP_MCB_USDC_SHARE_TOKEN_ADDRESS == "uniswap_mcb_usdc_share"
MCB_TOKEN_ADDRESS == "mcb"

XIA_REBALANCE_HARD_FORK_BLOCK_NUMBER == 10380000
SHANG_REWARD_LINK_POOL_BLOCK_NUMBER == 10700000
ZHOU_BEGIN_BLOCK_NUMBER == 10990000
ZHOU_REWARD_COMP_POOL_BLOCK_NUMBER == 11000000
ZHOU_REWARD_LEND_POOL_BLOCK_NUMBER == 11010000
ZHOU_REWARD_SNX_POOL_BLOCK_NUMBER == 11020000
QIN_BEGIN_BLOCK_NUMBER == 11190000
QIN_REWARD_BTC_POOL_BLOCK_NUMBER == 11250000
QIN_REDUCE_REWARD_BLOCK_NUMBER == 11400000

ZHOU_M == 4
ZHOU_N == 41000
QIN_M == 3
QIN_N == 51250

\* the block range of the reward override of _get_pool_value_info
OverrideBegin == 11601000
OverrideEnd == 11685000

Rounds == {"XIA", "SHANG", "ZHOU", "QIN", "HAN"}

ShareTokens ==
    {ETH_PERP_SHARE_TOKEN_ADDRESS, LINK_PERP_SHARE_TOKEN_ADDRESS,
     COMP_PERP_SHARE_TOKEN_ADDRESS, LEND_PERP_SHARE_TOKEN_ADDRESS,
     SNX_PERP_SHARE_TOKEN_ADDRESS, BTC_PERP_SHARE_TOKEN_ADDRESS,
     UNISWAP_MCB_ETH_SHARE_TOKEN_ADDRESS, UNISWAP_MCB_USDC_SHARE_TOKEN_ADDRESS}

Tokens == ShareTokens \cup {MCB_TOKEN_ADDRESS}

\* the addresses that hold tokens: the miners and the two uniswap pools
Accounts ==
    Holders \cup {UNISWAP_MCB_ETH_SHARE_TOKEN_ADDRESS,
                  UNISWAP_MCB_USDC_SHARE_TOKEN_ADDRESS}

AccountOrder ==
    HolderOrder \o <<UNISWAP_MCB_ETH_SHARE_TOKEN_ADDRESS,
                     UNISWAP_MCB_USDC_SHARE_TOKEN_ADDRESS>>

\* the sum of f over the accounts
AccountSum(f) == SeqSum([i \in 1..Len(AccountOrder) |-> f[AccountOrder[i]]])

(***************************************************************************)
(* ShareMining._get_total_share_token_amount, _get_share_token_items.      *)
(* token_balances[token][holder] is the TokenBalance row's balance, 0 when *)
(* there is no row: both queries treat the two alike.                      *)
(***************************************************************************)
get_total_share_token_amount(tb, token) == AccountSum(tb[token])

get_share_token_items(tb, token) == {a \in Accounts : tb[token][a] # 0}

(***************************************************************************)
(* ShareMining._get_holder_mcb_balance: the MCB of every holder, plus the  *)
(* pro-rata part of the MCB held by the uniswap MCB/ETH pool.  When that   *)
(* pool has share holders but no MCB balance row the product raises.       *)
(***************************************************************************)
get_holder_mcb_balance(tb) ==
    LET uniswap_pool_total_mcb_balance ==
            tb[MCB_TOKEN_ADDRESS][UNISWAP_MCB_ETH_SHARE_TOKEN_ADDRESS]
        uniswap_total_share_token_amount ==
            get_total_share_token_amount(tb, UNISWAP_MCB_ETH_SHARE_TOKEN_ADDRESS)
    IN  [raised |-> /\ uniswap_total_share_token_amount # 0
                    /\ uniswap_pool_total_mcb_balance = 0,
         balance |->
            [a \in Accounts |->
                Dec(tb[MCB_TOKEN_ADDRESS][a])
                + IF /\ uniswap_total_share_token_amount # 0
                     /\ tb[UNISWAP_MCB_ETH_SHARE_TOKEN_ADDRESS][a] # 0
                  THEN WadDiv(Dec(uniswap_pool_total_mcb_balance
                                   * tb[UNISWAP_MCB_ETH_SHARE_TOKEN_ADDRESS][a]),
                              Dec(uniswap_total_share_token_amount))
                  ELSE 0]]

(***************************************************************************)
(* ShareMining._update_uniswap_pool_proportion: the proportion written     *)
(* into pool_info for every pool of the group, 1 where none is written.    *)
(***************************************************************************)
\* a variant that leaves every pool with the default proportion
update_uniswap_pool_proportion_unwritten(pools, tb) ==
    [i \in 1..Len(pools) |-> Dec(1)]

update_uniswap_pool_proportion(pools, tb) ==
    LET mcb == get_holder_mcb_balance(tb).balance
        total_mcb_balance_in_uniswap_pools ==
            SeqSum([i \in 1..Len(pools) |->
                      IF pools[i].pool_type = "UNISWAP"
                      THEN mcb[pools[i].pool_share_token_address] ELSE 0])
    IN  [i \in 1..Len(pools) |->
            IF /\ pools[i].pool_type = "UNISWAP"
               /\ total_mcb_balance_in_uniswap_pools # 0
            THEN WadDiv(mcb[pools[i].pool_share_token_address],
                        total_mcb_balance_in_uniswap_pools)
            ELSE Dec(1)]

(***************************************************************************)
(* ShareMining._get_token_map and the PositionBalance rows of a pool.      *)
(* A perpetual is named by its share token; position_balances holds the    *)
(* rows [perpetual_address, holder, balance].                              *)
(***************************************************************************)
AMM_PROXY == "amm_proxy"

\* the PositionBalance rows read for the pool: none without a map row
position_items(token, pos, map) ==
    IF token \in map THEN {p \in pos : p.perpetual_address = token} ELSE {}

\* position_holder_dict.get(holder, Decimal(0))
position_of(items, holder) ==
    IF \E p \in items : p.holder = holder
    THEN (CHOOSE p \in items : p.holder = holder).balance
    ELSE 0

\* n / d as a Decimal
Frac(n, d) == (n * WadScale) \div d

(***************************************************************************)
(* ShareMining._get_effective_share_info.  The result holds the effective  *)
(* share of every account (0 where the dict has no entry) and the total.   *)
(***************************************************************************)
holder_effective_share(round, share, imbalance_rate) ==
    IF round = "XIA"
    THEN IF imbalance_rate <= Frac(1, 10) THEN share
         ELSE IF imbalance_rate >= Frac(9, 10) THEN WadMul(share, Frac(1, 10))
         ELSE WadMul(share, Frac(89, 80) - WadMul(imbalance_rate, Frac(9, 8)))
    ELSE IF imbalance_rate <= Frac(2, 10) THEN share
         ELSE IF imbalance_rate >= Frac(9, 10) THEN WadMul(share, Frac(1, 10))
         ELSE WadMul(share, Frac(44, 35) - WadMul(imbalance_rate, Frac(9, 7)))

get_effective_share_info(round, block_number, token, tb, pos, map) ==
    LET total == get_total_share_token_amount(tb, token)
        items == position_items(token, pos, map)
        amm_position == position_of(items, AMM_PROXY)
        \* the holders of the loop that are not skipped
        members == {a \in Accounts : /\ \E p \in items : p.holder = a
                                     /\ tb[token][a] # 0}
        holder_position_in_amm(a) ==
            WadDiv(WadMul(Dec(amm_position), Dec(tb[token][a])), Dec(total))
        imbalance_rate(a) ==
            Abs(WadDiv(holder_position_in_amm(a) + Dec(position_of(items, a)),
                       holder_position_in_amm(a)))
    IN  IF block_number >= ZHOU_BEGIN_BLOCK_NUMBER
        THEN [raised |-> FALSE,
              share |-> [a \in Accounts |-> Dec(tb[token][a])],
              total |-> Dec(total)]
        ELSE IF \/ \E a \in members : holder_position_in_amm(a) = 0
                \/ members # {} /\ round \notin {"XIA", "SHANG"}
        THEN [raised |-> TRUE, share |-> [a \in Accounts |-> 0], total |-> 0]
        ELSE LET share == [a \in Accounts |->
                             IF a \in members
                             THEN holder_effective_share(round, Dec(tb[token][a]),
                                                         imbalance_rate(a))
                             ELSE 0]
             IN  [raised |-> FALSE, share |-> share, total |-> AccountSum(share)]

(***************************************************************************)
(* ShareMining._get_chain_link_price and _get_pool_usd_value.              *)
(***************************************************************************)
get_chain_link_price(block_number, prices) ==
    LET known == {e \in prices : e.block_number <= block_number}
    IN  IF known = {} THEN [raised |-> TRUE, price |-> 0]
        ELSE [raised |-> FALSE,
              price |-> (CHOOSE e \in known :
                            \A o \in known : o.block_number <= e.block_number).price]

get_pool_usd_value(block_number, pool, pos, map, prices) ==
    LET amm_position ==
            position_of(position_items(pool.pool_share_token_address, pos, map),
                        AMM_PROXY)
        link == get_chain_link_price(block_number, prices)
    IN  IF pool.pool_contract_inverse
        THEN [raised |-> FALSE, value |-> Abs(Dec(amm_position))]
        ELSE IF pool.pool_name # "BTC_PERP" \/ link.raised
        THEN [raised |-> TRUE, value |-> 0]
        ELSE [raised |-> FALSE,
              value |-> Abs(WadMul(Dec(amm_position), Dec(link.price)))]

(***************************************************************************)
(* ShareMining._get_pool_value_info, lines 163-169: the reward per block   *)
(* the engine holds after the call.                                        *)
(***************************************************************************)
reward_per_block_after(round, block_number, rpb) ==
    IF round = "QIN" /\ block_number < QIN_REDUCE_REWARD_BLOCK_NUMBER
    THEN Dec(2)
    ELSE IF round = "QIN" /\ block_number >= QIN_REDUCE_REWARD_BLOCK_NUMBER
    THEN Frac(2, 10)
    ELSE IF block_number >= OverrideBegin /\ block_number < OverrideEnd
    THEN Frac(1875, 10000)
    ELSE rpb

(***************************************************************************)
(* ShareMining._get_pool_value_info, lines 170-233: per pool of the group  *)
(* the total, the holders, the effective shares and the pool reward.       *)
(***************************************************************************)
\* a variant that takes the fork block itself as a block before the fork
uses_effective_share_after_fork(pool, block_number) ==
    /\ pool.pool_type = "AMM"
    /\ block_number > XIA_REBALANCE_HARD_FORK_BLOCK_NUMBER

\* pool_type == 'AMM' and block_number >= xia_rebalance_hard_fork
uses_effective_share(pool, block_number) ==
    /\ pool.pool_type = "AMM"
    /\ block_number >= XIA_REBALANCE_HARD_FORK_BLOCK_NUMBER

\* lines 176-214: what the loop stores for one pool
pool_value(pool, block_number, total, eff, usd, tb) ==
    [pool_name |-> pool.pool_name,
     amm_pool_proportion |-> pool.amm_pool_proportion,
     effective |-> uses_effective_share(pool, block_number),
     total_share_token_amount |-> total,
     share_token_items |-> get_share_token_items(tb, pool.pool_share_token_address),
     balance |-> tb[pool.pool_share_token_address],
     effective_share_dict |-> eff.share,
     total_effective_share_amount |-> eff.total,
     pool_effective_usd_value |->
        IF total # 0
        THEN WadDiv(WadMul(usd.value, Wad_from_number(eff.total)), Dec(total))
        ELSE 0,
     raised |-> eff.raised \/ usd.raised]

NoEffectiveShare ==
    [raised |-> FALSE, share |-> [a \in Accounts |-> 0], total |-> 0]

NoUsdValue == [raised |-> FALSE, value |-> 0]

pool_values(round, block_number, pools, tb, pos, map, prices) ==
    [i \in 1..Len(pools) |->
        pool_value(pools[i], block_number,
            get_total_share_token_amount(tb, pools[i].pool_share_token_address),
            IF uses_effective_share(pools[i], block_number)
            THEN get_effective_share_info(round, block_number,
                     pools[i].pool_share_token_address, tb, pos, map)
            ELSE NoEffectiveShare,
            IF uses_effective_share(pools[i], block_number)
            THEN get_pool_usd_value(block_number, pools[i], pos, map, prices)
            ELSE NoUsdValue,
            tb)]

\* lines 219-231: the reward of every pool of the group
pool_rewards(block_number, values, budget, proportion) ==
    LET n == Len(values)
        pools_total_effective_value ==
            SeqSum([i \in 1..n |->
                      IF values[i].effective
                      THEN values[i].pool_effective_usd_value ELSE 0])
        \* the test of line 223 reads the pool_type the loop left behind
        amm_update == values[n].effective
        raised ==
            \/ \E i \in 1..n : values[i].raised
            \* a pool whose reward or effective value is never stored
            \/ \E i \in 1..n : values[i].effective # amm_update
            \/ /\ amm_update
               /\ block_number < QIN_BEGIN_BLOCK_NUMBER
               /\ pools_total_effective_value = 0
    IN  [raised |-> raised,
         pools |->
            IF raised THEN <<>>
            ELSE [i \in 1..n |->
                    [pool_reward |->
                        IF ~amm_update
                        THEN WadMul(budget, Wad_from_number(proportion[i]))
                        ELSE IF block_number >= QIN_BEGIN_BLOCK_NUMBER
                        THEN WadMul(budget,
                                 Wad_from_number(values[i].amm_pool_proportion))
                        ELSE WadDiv(WadMul(budget,
                                           values[i].pool_effective_usd_value),
                                    pools_total_effective_value)]
                    @@ values[i]]]

get_pool_value_info(round, block_number, pools, pool_reward_percent, rpb, tb, pos, map, prices) ==
    IF get_holder_mcb_balance(tb).raised
    THEN [raised |-> TRUE, pools |-> <<>>]
    ELSE pool_rewards(block_number,
             pool_values(round, block_number, pools, tb, pos, map, prices),
             WadMul(Wad_from_number(pool_reward_percent), Wad_from_number(rpb)),
             update_uniswap_pool_proportion(pools, tb))

(***************************************************************************)
(* ShareMining._get_holder_reward_factor.  The second test is an `if`, not *)
(* an `elif`: the ZHOU constants are replaced by the default ones.         *)
(***************************************************************************)
reward_factor_m(round) == IF round = "QIN" THEN QIN_M ELSE 2

reward_factor_n(round) == IF round = "QIN" THEN QIN_N ELSE 102500

get_holder_reward_factor(round, reward, holder_mcb_balance) ==
    LET mcb_weight ==
            IF reward = 0 THEN 0
            ELSE WadDiv(holder_mcb_balance, reward * reward_factor_n(round))
    IN  IF mcb_weight < Dec(1)
        THEN Dec(1) + mcb_weight * reward_factor_m(round)
        ELSE Dec(1) + Dec(reward_factor_m(round))

(***************************************************************************)
(* The reward of a holder in a pool before the factor: lines 320, 366.     *)
(***************************************************************************)
holder_pool_reward(p, a) ==
    Decimal_of_wad(
        WadDiv(WadMul(p.pool_reward, Wad_from_number(p.effective_share_dict[a])),
               Wad_from_number(p.total_effective_share_amount)))

\* the pools of the group that the first loop does not skip
counted(info) == {i \in 1..Len(info) : info[i].total_share_token_amount # 0}

\* the holders of holder_amms_reward_dict
amms_holders(info) ==
    {a \in Accounts : \E i \in counted(info) :
        info[i].effective /\ a \in info[i].share_token_items}

\* holder_amms_reward_dict[holder]
holder_amms_reward(info, a) ==
    SeqSum([i \in 1..Len(info) |->
              IF i \in counted(info) /\ info[i].effective
                 /\ a \in info[i].share_token_items
              THEN holder_pool_reward(info[i], a) ELSE 0])

\* a division by a zero total of effective shares in the first loop
reward_raises(info) ==
    \E i \in counted(info) :
        /\ info[i].effective
        /\ info[i].share_token_items # {}
        /\ info[i].total_effective_share_amount = 0

(***************************************************************************)
(* ShareMining._get_holder_reward_weight: one weight per holder.           *)
(***************************************************************************)
get_holder_reward_weight(round, info, tb) ==
    LET amms_pool_total_reward ==
            SeqSum([i \in 1..Len(info) |->
                      IF i \in counted(info) THEN info[i].pool_reward ELSE 0])
        holders == amms_holders(info)
        mcb == get_holder_mcb_balance(tb)
        factor(a) == get_holder_reward_factor(round, holder_amms_reward(info, a),
                                              mcb.balance[a])
        total_holder_reward_weight ==
            SeqSum([k \in 1..Len(AccountOrder) |->
                      IF AccountOrder[k] \in holders
                      THEN WadMul(WadDiv(holder_amms_reward(info, AccountOrder[k]),
                                         amms_pool_total_reward),
                                  factor(AccountOrder[k]))
                      ELSE 0])
        raised == \/ reward_raises(info)
                  \/ mcb.raised
                  \/ holders # {} /\ amms_pool_total_reward = 0
                  \/ holders # {} /\ total_holder_reward_weight = 0
    IN  [raised |-> raised,
         theory |-> IF raised THEN {}
                    ELSE {[holder |-> a, mcb_balance |-> holder_amms_reward(info, a)] :
                             a \in holders},
         weight |-> IF raised THEN <<>>
                    ELSE [i \in 1..Len(info) |->
                            [a \in Accounts |->
                                IF a \in holders
                                THEN WadDiv(factor(a), total_holder_reward_weight)
                                ELSE Dec(1)]]]

(***************************************************************************)
(* ShareMining._get_holder_amms_reward_weight: one weight per pool and     *)
(* holder.  A pool skipped by the first loop has no entry in               *)
(* holder_pools_reward and the second loop raises on it.                   *)
(***************************************************************************)
get_holder_amms_reward_weight(round, info, tb) ==
    LET holders == amms_holders(info)
        mcb == get_holder_mcb_balance(tb)
        members(i) == IF info[i].effective THEN info[i].share_token_items ELSE {}
        factor(a) == get_holder_reward_factor(round, holder_amms_reward(info, a),
                                              mcb.balance[a])
        holder_total_pool_reward_weight(i) ==
            SeqSum([k \in 1..Len(AccountOrder) |->
                      IF AccountOrder[k] \in members(i)
                      THEN WadMul(WadDiv(holder_pool_reward(info[i], AccountOrder[k]),
                                         Decimal_of_wad(info[i].pool_reward)),
                                  factor(AccountOrder[k]))
                      ELSE 0])
        raised == \/ reward_raises(info)
                  \/ mcb.raised
                  \/ counted(info) # 1..Len(info)
                  \/ \E i \in 1..Len(info) :
                        /\ members(i) # {}
                        /\ \/ info[i].pool_reward = 0
                           \/ holder_total_pool_reward_weight(i) = 0
    IN  [raised |-> raised,
         theory |-> IF raised THEN {}
                    ELSE {[holder |-> a, mcb_balance |-> holder_amms_reward(info, a)] :
                             a \in holders},
         weight |-> IF raised THEN <<>>
                    ELSE [i \in 1..Len(info) |->
                            [a \in Accounts |->
                                IF a \in members(i)
                                THEN WadDiv(factor(a),
                                            holder_total_pool_reward_weight(i))
                                ELSE Dec(1)]]]

\* no weight is computed before the ZHOU blocks
no_holder_weight(info) ==
    [raised |-> FALSE, theory |-> {},
     weight |-> [i \in 1..Len(info) |-> [a \in Accounts |-> Dec(1)]]]

(***************************************************************************)
(* ShareMining.sync, lines 494-626: the pool groups of a round at a block, *)
(* each with its pool_reward_percent.                                      *)
(***************************************************************************)
Pool(name, token, type, inverse, proportion) ==
    [pool_name |-> name, pool_share_token_address |-> token, pool_type |-> type,
     pool_contract_inverse |-> inverse, amm_pool_proportion |-> proportion]

AmmPool(name, token) == Pool(name, token, "AMM", TRUE, Dec(1))

ETH_PERP == AmmPool("ETH_PERP", ETH_PERP_SHARE_TOKEN_ADDRESS)
LINK_PERP == AmmPool("LINK_PERP", LINK_PERP_SHARE_TOKEN_ADDRESS)
COMP_PERP == AmmPool("COMP_PERP", COMP_PERP_SHARE_TOKEN_ADDRESS)
LEND_PERP == AmmPool("LEND_PERP", LEND_PERP_SHARE_TOKEN_ADDRESS)
SNX_PERP == AmmPool("SNX_PERP", SNX_PERP_SHARE_TOKEN_ADDRESS)
BTC_PERP == Pool("BTC_PERP", BTC_PERP_SHARE_TOKEN_ADDRESS, "AMM", FALSE, Dec(1))
UNISWAP_MCB_ETH ==
    Pool("UNISWAP_MCB_ETH", UNISWAP_MCB_ETH_SHARE_TOKEN_ADDRESS, "UNISWAP", TRUE, Dec(1))
UNISWAP_MCB_USDC ==
    Pool("UNISWAP_MCB_USDC", UNISWAP_MCB_USDC_SHARE_TOKEN_ADDRESS, "UNISWAP", TRUE, Dec(1))

Group(pools, percent) == [pools |-> pools, pool_reward_percent |-> percent]

WithProportion(pool, proportion) == [pool EXCEPT !.amm_pool_proportion = proportion]

pool_groups(round, block_number) ==
    IF round = "XIA" THEN << Group(<<ETH_PERP>>, Dec(1)) >>
    ELSE IF round = "SHANG" THEN
        << Group(<<ETH_PERP>>
                 \o (IF block_number >= SHANG_REWARD_LINK_POOL_BLOCK_NUMBER
                     THEN <<LINK_PERP>> ELSE <<>>),
                 Frac(75, 100)),
           Group(<<UNISWAP_MCB_ETH>>, Frac(25, 100)) >>
    ELSE IF round = "ZHOU" THEN
        << Group(<<ETH_PERP, LINK_PERP>>
                 \o (IF block_number >= ZHOU_REWARD_COMP_POOL_BLOCK_NUMBER
                     THEN <<COMP_PERP>> ELSE <<>>)
                 \o (IF block_number >= ZHOU_REWARD_LEND_POOL_BLOCK_NUMBER
                     THEN <<LEND_PERP>> ELSE <<>>)
                 \o (IF block_number >= ZHOU_REWARD_SNX_POOL_BLOCK_NUMBER
                     THEN <<SNX_PERP>> ELSE <<>>),
                 Frac(75, 100)),
           Group(<<UNISWAP_MCB_ETH>>, Frac(25, 100)) >>
    ELSE IF round = "QIN" THEN
        LET little_pool_num ==
                IF block_number >= QIN_REWARD_BTC_POOL_BLOCK_NUMBER THEN 5 ELSE 4
            little_pools_mean_proportion == Frac(2, 10 * little_pool_num)
        IN  << Group(<<WithProportion(ETH_PERP, Frac(8, 10)),
                       WithProportion(LINK_PERP, little_pools_mean_proportion),
                       WithProportion(COMP_PERP, little_pools_mean_proportion),
                       WithProportion(LEND_PERP, little_pools_mean_proportion),
                       WithProportion(SNX_PERP, little_pools_mean_proportion)>>
                     \o (IF block_number >= QIN_REWARD_BTC_POOL_BLOCK_NUMBER
                         THEN <<WithProportion(BTC_PERP, little_pools_mean_proportion)>>
                         ELSE <<>>),
                     Frac(5, 10)),
               Group(<<UNISWAP_MCB_ETH>>, Frac(5, 10)) >>
    ELSE IF round = "HAN" THEN
        << Group(<<UNISWAP_MCB_ETH, UNISWAP_MCB_USDC>>, Dec(1)) >>
    ELSE <<>>

(***************************************************************************)
(* ShareMining._calculate_pools_reward: the rows one pass adds for a group *)
(* of pools, and the TheoryMiningReward values it writes.                  *)
(***************************************************************************)
holder_weights(round, block_number, info, tb) ==
    IF block_number >= QIN_BEGIN_BLOCK_NUMBER
    THEN get_holder_amms_reward_weight(round, info, tb)
    ELSE IF block_number >= ZHOU_BEGIN_BLOCK_NUMBER
    THEN get_holder_reward_weight(round, info, tb)
    ELSE no_holder_weight(info)

\* lines 439-448: the reward of a holder of a pool
holder_reward(p, weight, a) ==
    IF p.effective
    THEN Decimal_of_wad(
            WadDiv(WadMul(WadMul(Wad_from_number(weight), p.pool_reward),
                          Wad_from_number(p.effective_share_dict[a])),
                   Wad_from_number(p.total_effective_share_amount)))
    ELSE Decimal_of_wad(
            WadDiv(WadMul(p.pool_reward, Dec(p.balance[a])),
                   Dec(p.total_share_token_amount)))

\* lines 450-456: the ImmatureMiningReward row
new_immature_mining_reward(round, block_number, pool_name, holder, reward) ==
    [block_number |-> block_number, pool_name |-> pool_name,
     mining_round |-> round, holder |-> holder, mcb_balance |-> reward]

\* lines 412-456: the rows of the pools that are not skipped
pool_rewards_rows(round, block_number, info, weights) ==
    IF weights.raised \/ reward_raises(info) THEN {}
    ELSE {new_immature_mining_reward(round, block_number, info[x[1]].pool_name,
              x[2], holder_reward(info[x[1]], weights.weight[x[1]][x[2]], x[2])) :
            x \in {y \in (1..Len(info)) \X Accounts :
                      /\ info[y[1]].total_share_token_amount # 0
                      /\ y[2] \in info[y[1]].share_token_items}}

pass_result(round, block_number, info, weights) ==
    [raised |-> weights.raised \/ reward_raises(info),
     theory |-> weights.theory,
     rewards |-> pool_rewards_rows(round, block_number, info, weights)]

RaisedPass == [raised |-> TRUE, theory |-> {}, rewards |-> {}]

weighted_pass(round, block_number, value, tb) ==
    IF value.raised THEN RaisedPass
    ELSE pass_result(round, block_number, value.pools,
                     holder_weights(round, block_number, value.pools, tb))

calculate_pools_reward(round, block_number, group, rpb, tb, pos, map, prices) ==
    weighted_pass(round, block_number,
        get_pool_value_info(round, block_number, group.pools,
            group.pool_reward_percent, rpb, tb, pos, map, prices),
        tb)

(***************************************************************************)
(* The tables after the rows of a sync are added.                          *)
(***************************************************************************)
SameGroup(s, r) ==
    /\ s.mining_round = r.mining_round
    /\ s.pool_name = r.pool_name
    /\ s.holder = r.holder

\* lines 458-468, a variant that stores the reward in place of adding it
summary_after_reward_overwritten(summaries, r) ==
    {s \in summaries : ~SameGroup(s, r)}
    \cup {[mining_round |-> r.mining_round, pool_name |-> r.pool_name,
           holder |-> r.holder, mcb_balance |-> r.mcb_balance]}

\* lines 458-468: the summary row of the group is created or increased
summary_after_reward(summaries, r) ==
    IF \E s \in summaries : SameGroup(s, r)
    THEN {IF SameGroup(s, r)
          THEN [s EXCEPT !.mcb_balance = s.mcb_balance + r.mcb_balance]
          ELSE s : s \in summaries}
    ELSE summaries \cup {[mining_round |-> r.mining_round, pool_name |-> r.pool_name,
                          holder |-> r.holder, mcb_balance |-> r.mcb_balance]}

RECURSIVE summaries_after_rewards(_, _)
summaries_after_rewards(summaries, rewards) ==
    IF rewards = {} THEN summaries
    ELSE LET r == CHOOSE x \in rewards : TRUE
         IN  summaries_after_rewards(summary_after_reward(summaries, r),
                                     rewards \ {r})

\* _save_theory_mining_reward: the row of (round, holder) is created with
\* the pool type, or its balance is replaced
theory_after_save(theory, round, pool_type, saved) ==
    {t \in theory :
        ~(t.mining_round = round /\ \E s \in saved : s.holder = t.holder)}
    \cup {[mining_round |-> round,
           pool_type |-> IF \E t \in theory : /\ t.mining_round = round
                                              /\ t.holder = s.holder
                         THEN (CHOOSE t \in theory : /\ t.mining_round = round
                                                     /\ t.holder = s.holder).pool_type
                         ELSE pool_type,
           holder |-> s.holder, mcb_balance |-> s.mcb_balance] : s \in saved}

\* the key (block, round, pool, holder) of ImmatureMiningReward: a variant
\* of a table without the key
key_conflict_never(rows, rewards) == FALSE

\* the key (block, round, pool, holder) of ImmatureMiningReward: an insert
\* of a second row with a stored key is refused
key_conflict(rows, rewards) ==
    \E r \in rewards, o \in rows :
        /\ o.block_number = r.block_number
        /\ o.mining_round = r.mining_round
        /\ o.pool_name = r.pool_name
        /\ o.holder = r.holder

(***************************************************************************)
(* ShareMining.sync.  The passes of one call run in the session the        *)
(* watcher opened for the block: when a pass raises, or an insert is       *)
(* refused, the session is discarded and the tables keep their content.    *)
(* The reward per block is a field of the engine and keeps the value the   *)
(* call gave it.                                                           *)
(***************************************************************************)
\* lines 490-492, a variant that checks the begin of the window only
in_mining_window_begin_only(block_number, first_block, last_block) ==
    ~(block_number < first_block)

\* lines 490-492
in_mining_window(block_number, first_block, last_block) ==
    ~(block_number < first_block \/ block_number > last_block)

\* the tables after the passes of a call
sync_tables(round, rpb_after, rows, summaries, theory, passes, rewards) ==
    IF \/ \E g \in 1..Len(passes) : passes[g].raised
       \/ key_conflict(rows, rewards)
    THEN [raised |-> TRUE,
          reward_per_block |-> rpb_after,
          immature_mining_rewards |-> rows,
          immature_mining_reward_summaries |-> summaries,
          theory_mining_rewards |-> theory]
    ELSE [raised |-> FALSE,
          reward_per_block |-> rpb_after,
          immature_mining_rewards |-> rows \cup rewards,
          immature_mining_reward_summaries |->
             summaries_after_rewards(summaries, rewards),
          theory_mining_rewards |->
             theory_after_save(theory, round, "AMM",
                 UNION {passes[g].theory : g \in 1..Len(passes)})]

sync_passes(round, block_number, groups, rpb_after, tb, pos, map, prices) ==
    [g \in 1..Len(groups) |->
        calculate_pools_reward(round, block_number, groups[g], rpb_after,
                               tb, pos, map, prices)]

passes_tables(round, rpb_after, rows, summaries, theory, passes) ==
    sync_tables(round, rpb_after, rows, summaries, theory, passes,
                UNION {passes[g].rewards : g \in 1..Len(passes)})

sync_with_reward(round, block_number, rpb_after, rows, summaries, theory, tb, pos, map, prices) ==
    passes_tables(round, rpb_after, rows, summaries, theory,
        sync_passes(round, block_number, pool_groups(round, block_number),
                    rpb_after, tb, pos, map, prices))

sync_result(round, block_number, rpb, rows, summaries, theory, tb, pos, map, prices) ==
    sync_with_reward(round, block_number,
        reward_per_block_after(round, block_number, rpb),
        rows, summaries, theory, tb, pos, map, prices)

(***************************************************************************)
(* ShareMining.rollback                                                    *)
(***************************************************************************)
RECURSIVE SumBalance(_)
SumBalance(rows) ==
    IF rows = {} THEN 0
    ELSE LET r == CHOOSE x \in rows : TRUE
         IN  r.mcb_balance + SumBalance(rows \ {r})

\* lines 631-633, a variant that takes the rows of the block itself too
rolled_back_from_block(rows, round, block_number) ==
    {r \in rows : r.block_number >= block_number /\ r.mining_round = round}

\* lines 631-633 and 654-656: the rows the call aggregates and deletes
rolled_back(rows, round, block_number) ==
    {r \in rows : r.block_number > block_number /\ r.mining_round = round}

\* lines 641-652: every aggregated group is taken off its summary row
summaries_after_rollback(summaries, deleted) ==
    {IF \E d \in deleted : SameGroup(s, d)
     THEN [s EXCEPT !.mcb_balance =
              s.mcb_balance - SumBalance({d \in deleted : SameGroup(s, d)})]
     ELSE s : s \in summaries}

rollback_result(round, block_number, rows, summaries) ==
    LET deleted == rolled_back(rows, round, block_number)
    IN  [immature_mining_rewards |-> rows \ deleted,
         immature_mining_reward_summaries |->
            summaries_after_rollback(summaries, deleted)]

(***************************************************************************)
(* The engine and what it reads.                                           *)
(***************************************************************************)
\* the rounds whose engine is explored
EngineRounds == {"XIA", "HAN"}

\* ShareMining(begin_block, end_block, reward_per_block, mining_round)
BeginBlock == OverrideBegin - WindowBefore
EndBlock == OverrideBegin
REWARD_PER_BLOCK == Frac(2, 10)

WindowBlocks == BeginBlock..EndBlock
CallBlocks == (BeginBlock - WindowMargin)..(EndBlock + WindowMargin)

\* share token balances of the two holders
Shares(x, y) ==
    [a \in Accounts |-> IF a = "h1" THEN x ELSE IF a = "h2" THEN y ELSE 0]

ShareChoices == {Shares(0, 0), Shares(1, 0), Shares(1, 2)}

\* MCB balances: of h1, of the uniswap MCB/ETH pool, of the MCB/USDC pool
Mcb(x, eth_pool, usdc_pool) ==
    [a \in Accounts |->
        IF a = "h1" THEN x
        ELSE IF a = UNISWAP_MCB_ETH_SHARE_TOKEN_ADDRESS THEN eth_pool
        ELSE IF a = UNISWAP_MCB_USDC_SHARE_TOKEN_ADDRESS THEN usdc_pool
        ELSE 0]

McbChoices == {Mcb(0, 0, 0), Mcb(2, 1, 0), Mcb(0, 3, 1)}

\* the share tokens of the first and second pool explored for a round
FirstToken(round) ==
    IF round = "HAN" THEN UNISWAP_MCB_ETH_SHARE_TOKEN_ADDRESS
    ELSE ETH_PERP_SHARE_TOKEN_ADDRESS

SecondToken(round) ==
    IF round = "HAN" THEN UNISWAP_MCB_USDC_SHARE_TOKEN_ADDRESS
    ELSE UNISWAP_MCB_ETH_SHARE_TOKEN_ADDRESS

TokenBalances(round, s1, s2, m) ==
    [t \in Tokens |->
        IF t = MCB_TOKEN_ADDRESS THEN m
        ELSE IF t = FirstToken(round) THEN s1
        ELSE IF t = SecondToken(round) THEN s2
        ELSE Shares(0, 0)]

\* every AMM share token has its map row; the AMM of the ETH perpetual is
\* short 100 contracts and no holder has a position row
InitialShareMap == ShareTokens \ {UNISWAP_MCB_ETH_SHARE_TOKEN_ADDRESS,
                                  UNISWAP_MCB_USDC_SHARE_TOKEN_ADDRESS}

InitialPositions ==
    {[perpetual_address |-> ETH_PERP_SHARE_TOKEN_ADDRESS, holder |-> AMM_PROXY,
      balance |-> 0 - 100]}

\* rows that the engine of another round stored in the same tables
OtherRound(round) == IF round = "HAN" THEN "QIN" ELSE "HAN"

InitialRewards(round) ==
    {new_immature_mining_reward(OtherRound(round), BeginBlock + 1,
                                "UNISWAP_MCB_ETH", "h1", Dec(1))}

InitialSummaries(round) ==
    summaries_after_rewards({}, InitialRewards(round))

\* the watcher's walk: it has synced BeginBlock..tip in order, peak is the
\* highest block it reached, rollbacks the rollbacks it made; a call out of
\* that order ends the walk
\* the last call of the watcher: sync of a block of the window ("sync", or
\* "sync_again" when rows of the block were stored), sync of another block
\* ("sync_outside"), rollback ("rollback_rows" when it found rows)
NoCall == [op |-> "none", block |-> 0]

NoTrip == [clean |-> FALSE, tip |-> 0, peak |-> 0, rollbacks |-> 0]
FirstTrip == [clean |-> TRUE, tip |-> BeginBlock - 1, peak |-> BeginBlock - 1,
              rollbacks |-> 0]

EngineInit ==
    \E round \in EngineRounds, s1 \in ShareChoices, s2 \in ShareChoices,
       m \in McbChoices :
        /\ begin_block = BeginBlock
        /\ end_block = EndBlock
        /\ mining_round = round
        /\ reward_per_block = REWARD_PER_BLOCK
        /\ immature_mining_rewards = InitialRewards(round)
        /\ immature_mining_reward_summaries = InitialSummaries(round)
        /\ theory_mining_rewards = {}
        /\ token_balances = TokenBalances(round, s1, s2, m)
        /\ position_balances = InitialPositions
        /\ perp_share_amm_proxy_map = InitialShareMap
        /\ chain_link_price_events = {}
        /\ call = NoCall
        /\ trip = FirstTrip

\* the engine of a deployment that only pays
EngineAtRest ==
    /\ begin_block = BeginBlock
    /\ end_block = EndBlock
    /\ mining_round = MINING_ROUND
    /\ reward_per_block = REWARD_PER_BLOCK
    /\ immature_mining_rewards = {}
    /\ immature_mining_reward_summaries = {}
    /\ theory_mining_rewards = {}
    /\ token_balances = TokenBalances(MINING_ROUND, Shares(0, 0), Shares(0, 0),
                                      Mcb(0, 0, 0))
    /\ position_balances = {}
    /\ perp_share_amm_proxy_map = {}
    /\ chain_link_price_events = {}
    /\ call = NoCall
    /\ trip = NoTrip

\* the payer of a deployment that only syncs
PayerAtRest ==
    /\ nonce = 0
    /\ pc = "idle"
    /\ pending_transactions = <<>>
    /\ unpaid_rewards = NoUnpaid
    /\ tx_hash = 0
    /\ payment_transactions = <<>>
    /\ payments = <<>>
    /\ round_payments = <<>>
    /\ mature_mining_rewards = <<>>
    /\ chain = <<>>
    /\ ether_transactions = {}
    /\ cycle = NoCycle

chain_tables == <<token_balances, position_balances, perp_share_amm_proxy_map,
                  chain_link_price_events>>

SyncResult(block_number) ==
    sync_result(mining_round, block_number, reward_per_block,
                immature_mining_rewards, immature_mining_reward_summaries,
                theory_mining_rewards, token_balances, position_balances,
                perp_share_amm_proxy_map, chain_link_price_events)

\* the step of a sync call whose passes gave res
SyncStep(block_number, res) ==
    /\ IF in_mining_window(block_number, begin_block, end_block)
       THEN /\ reward_per_block' = res.reward_per_block
            /\ immature_mining_rewards' = res.immature_mining_rewards
            /\ immature_mining_reward_summaries' =
                  res.immature_mining_reward_summaries
            /\ theory_mining_rewards' = res.theory_mining_rewards
       ELSE UNCHANGED <<reward_per_block, immature_mining_rewards,
                        immature_mining_reward_summaries, theory_mining_rewards>>
    /\ call' = [op |-> IF block_number \notin begin_block..end_block
                        THEN "sync_outside"
                        ELSE IF \E r \in immature_mining_rewards :
                                   /\ r.mining_round = mining_round
                                   /\ r.block_number = block_number
                        THEN "sync_again"
                        ELSE "sync",
                 block |-> block_number]
    /\ trip' = IF /\ trip.clean
                  /\ block_number = trip.tip + 1
                  /\ block_number \in begin_block..end_block
                  /\ ~res.raised
               THEN [trip EXCEPT !.tip = block_number,
                                 !.peak = IF block_number > trip.peak
                                          THEN block_number ELSE trip.peak]
               ELSE NoTrip
    /\ UNCHANGED <<begin_block, end_block, mining_round, chain_tables, payer_vars>>

\* the watcher calls sync for a block
Sync(block_number) == SyncStep(block_number, SyncResult(block_number))

\* the watcher calls rollback to a block
Rollback(block_number) ==
    LET res == rollback_result(mining_round, block_number,
                   immature_mining_rewards, immature_mining_reward_summaries)
    IN  /\ immature_mining_rewards' = res.immature_mining_rewards
        /\ immature_mining_reward_summaries' = res.immature_mining_reward_summaries
        /\ call' = [op |-> IF \E r \in immature_mining_rewards :
                                   /\ r.mining_round = mining_round
                                   /\ r.block_number > block_number
                            THEN "rollback_rows"
                            ELSE "rollback",
                     block |-> block_number]
        /\ trip' = IF /\ trip.clean
                      /\ trip.rollbacks = 0
                      /\ block_number >= begin_block
                      /\ block_number < trip.tip
                   THEN [trip EXCEPT !.tip = block_number, !.rollbacks = 1]
                   ELSE NoTrip
        /\ UNCHANGED <<begin_block, end_block, mining_round, reward_per_block,
                       theory_mining_rewards, chain_tables, payer_vars>>

EngineNext ==
    \/ \E block_number \in CallBlocks : Sync(block_number)
    \/ \E block_number \in CallBlocks : Rollback(block_number)

EngineStart == EngineInit /\ PayerAtRest

EngineSpec == EngineStart /\ [][EngineNext]_vars

(***************************************************************************)
(* An engine of any round whose mining window lies across one of the       *)
(* block numbers the code compares with: the window is                     *)
(* fork - ForkBefore .. fork.  Every pool has its map row and an AMM that  *)
(* is short 100 contracts, the BTC price is known, and all share tokens    *)
(* but at most one have holders.                                           *)
(***************************************************************************)
\* blocks of the mining window before the fork block
ForkBefore == 1

Forks == {XIA_REBALANCE_HARD_FORK_BLOCK_NUMBER,
          SHANG_REWARD_LINK_POOL_BLOCK_NUMBER,
          ZHOU_BEGIN_BLOCK_NUMBER,
          ZHOU_REWARD_COMP_POOL_BLOCK_NUMBER,
          ZHOU_REWARD_LEND_POOL_BLOCK_NUMBER,
          ZHOU_REWARD_SNX_POOL_BLOCK_NUMBER,
          QIN_BEGIN_BLOCK_NUMBER,
          QIN_REWARD_BTC_POOL_BLOCK_NUMBER,
          QIN_REDUCE_REWARD_BLOCK_NUMBER,
          OverrideBegin,
          OverrideEnd}

\* the share token without holders, if any
EmptyChoices == ShareTokens \cup {"none"}

\* the holders of every other share token
HolderChoices == {Shares(1, 0), Shares(1, 2)}

\* MCB balances with which _get_holder_mcb_balance does not raise
ForkMcbChoices == {Mcb(2, 1, 0), Mcb(0, 3, 1)}

ForkTokenBalances(empty, s, m) ==
    [t \in Tokens |->
        IF t = MCB_TOKEN_ADDRESS THEN m
        ELSE IF t = empty THEN Shares(0, 0)
        ELSE s]

\* the AMM of every perpetual is short 100 contracts; with holder_rows, h1
\* has a margin account position of 100 in every perpetual
ForkPositions(holder_rows) ==
    {[perpetual_address |-> t, holder |-> AMM_PROXY, balance |-> 0 - 100] :
        t \in InitialShareMap}
    \cup IF holder_rows
         THEN {[perpetual_address |-> t, holder |-> "h1", balance |-> 100] :
                  t \in InitialShareMap}
         ELSE {}

ForkPrices(begin) == {[block_number |-> begin - 1, price |-> 2]}

\* an engine of the round whose window ends at the fork block
ForkState(round, fork, empty, s, m, holder_rows) ==
    /\ begin_block = fork - ForkBefore
    /\ end_block = fork
    /\ mining_round = round
    /\ reward_per_block = REWARD_PER_BLOCK
    /\ immature_mining_rewards = {}
    /\ immature_mining_reward_summaries = {}
    /\ theory_mining_rewards = {}
    /\ token_balances = ForkTokenBalances(empty, s, m)
    /\ position_balances = ForkPositions(holder_rows)
    /\ perp_share_amm_proxy_map = InitialShareMap
    /\ chain_link_price_events = ForkPrices(fork - ForkBefore)
    /\ call = NoCall
    /\ trip = NoTrip

ForkInit ==
    \E round \in Rounds, fork \in Forks, empty \in EmptyChoices,
       s \in HolderChoices, m \in ForkMcbChoices, holder_rows \in BOOLEAN :
        ForkState(round, fork, empty, s, m, holder_rows)

ForkStart == ForkInit /\ PayerAtRest

\* the same engines with every MCB balance of McbChoices, among them the
\* UNISWAP pools holding no MCB; h1 has its position rows
CapInit ==
    \E round \in Rounds, fork \in Forks, empty \in EmptyChoices,
       s \in HolderChoices, m \in McbChoices :
        ForkState(round, fork, empty, s, m, TRUE)

CapStart == CapInit /\ PayerAtRest

\* the watcher calls sync for the blocks of the window
ForkNext == \E block_number \in begin_block..end_block : Sync(block_number)

ForkSpec == ForkStart /\ [][ForkNext]_vars

CapSpec == CapStart /\ [][ForkNext]_vars

PayerStart == PayerInit /\ EngineAtRest

PayerSpec == PayerStart /\ [][PayerNext]_vars

(***************************************************************************)
(* Claims about the payer.                                                 *)
(***************************************************************************)
\* what a transaction sent to h
AmountTo(entry, h) ==
    SeqSum([k \in 1..Len(entry.miners) |->
              IF entry.miners[k] = h THEN entry.amounts[k] ELSE 0])

\* what h was paid for the round: what the summary of the round records
\* and what the successful disperse_token transactions sent
TotalSent(h) ==
    PaidAmount(round_payments, MINING_ROUND, h)
    + SeqSum([i \in 1..Len(chain) |->
                IF chain[i].status = "success"
                THEN AmountTo(chain[i], h) ELSE 0])

MatureBalance(h) ==
    SeqSum([i \in 1..Len(mature_mining_rewards) |->
              IF /\ mature_mining_rewards[i].mining_round = MINING_ROUND
                 /\ mature_mining_rewards[i].holder = h
              THEN mature_mining_rewards[i].mcb_balance ELSE 0])

\* C1: at-most-once payout: what the on-chain-successful disperse
\* transactions of the run() cycles sent to a holder never exceeds the
\* holder's mature reward of the round.
C1_AtMostOncePayout ==
    \A h \in Holders : TotalSent(h) <= MatureBalance(h)

\* C3: every Payment row references a PaymentTransaction whose status is
\* SUCCESS; no Payment row belongs to a FAILED, INIT or PENDING transaction.
C3_PaymentsOnlyOnSuccess ==
    \A k \in 1..Len(payments) :
        \E i \in 1..Len(payment_transactions) :
            /\ payment_transactions[i].id = payments[k].transaction_id
            /\ payment_transactions[i].status = SUCCESS

\* a Payment row written by a cycle of this behaviour, for a transaction
\* that a cycle submitted
C3_Witness ==
    \E k \in 1..Len(payments), i \in 1..Len(payment_transactions) :
        /\ payment_transactions[i].id = payments[k].transaction_id
        /\ \E j \in 1..Len(payment_transactions) :
              payment_transactions[j].status = FAILED

\* C4: every disperse submission uses a nonce strictly greater than the
\* nonce of every earlier submission of the payer account.
C4_SubmissionNoncesIncrease ==
    \A i, j \in 1..Len(chain) :
        i < j => chain[i].nonce < chain[j].nonce

\* C5: the transaction_nonce values of the stored PaymentTransaction rows
\* are pairwise distinct and every row has a nonce strictly greater than
\* every row inserted before it.
C5_StoredNoncesIncrease ==
    \A i, j \in 1..Len(payment_transactions) :
        i < j => payment_transactions[i].transaction_nonce
                    < payment_transactions[j].transaction_nonce

\* two rows inserted by cycles of this behaviour, the process having been
\* started again in between (the second nonce skips one)
C5_Witness ==
    LET n == Len(payment_transactions)
    IN  /\ n >= 2
        /\ payment_transactions[n].transaction_nonce
              > payment_transactions[n - 1].transaction_nonce + 1

\* C10: when a receipt wait of the reconcile phase errors out, run() returns
\* without entering the pay phase: the cached nonce is not incremented,
\* disperse_token is not called and no PaymentTransaction row is inserted
\* in that cycle.
C10_ReconcileErrorAborts ==
    cycle.reconcile_error =>
        /\ pc = "idle"
        /\ nonce = cycle.nonce0
        /\ Len(chain) = cycle.chain0
        /\ Len(payment_transactions) = cycle.txs0

\* a cycle whose reconcile phase met a wait error after an earlier unpaid
\* set was submitted
C10_Witness ==
    /\ cycle.reconcile_error
    /\ \E i \in 1..Len(payment_transactions) :
          payment_transactions[i].status \in {INIT, PENDING}

(***************************************************************************)
(* Claims about the reward engine.                                         *)
(***************************************************************************)
GroupOf(x) == <<x.mining_round, x.pool_name, x.holder>>

\* the sum of the ImmatureMiningReward rows of a group
RowsOfGroup(rows, g) == SumBalance({r \in rows : GroupOf(r) = g})

\* the balance of the summary row of a group, 0 without a row
SummaryOfGroup(summaries, g) == SumBalance({s \in summaries : GroupOf(s) = g})

StoredGroups ==
    {GroupOf(x) : x \in immature_mining_rewards}
    \cup {GroupOf(x) : x \in immature_mining_reward_summaries}

\* the rows the engine of the behaviour stored
OwnRows == {r \in immature_mining_rewards : r.mining_round = mining_round}

\* C2: after any sequence of sync and rollback calls, for every (round,
\* pool, holder) the summary balance equals the sum of the balances of the
\* ImmatureMiningReward rows of the group, a missing summary row counting
\* as 0.
C2_SummaryIsSumOfRows ==
    \A g \in StoredGroups :
        /\ Cardinality({s \in immature_mining_reward_summaries : GroupOf(s) = g}) <= 1
        /\ SummaryOfGroup(immature_mining_reward_summaries, g)
              = RowsOfGroup(immature_mining_rewards, g)

\* a rollback deleted rows of a group that keeps rows of two earlier blocks
C2_Witness ==
    /\ call.op = "rollback_rows"
    /\ \E r1, r2 \in OwnRows :
          /\ GroupOf(r1) = GroupOf(r2)
          /\ r1.block_number < r2.block_number
          /\ r1.mcb_balance > 0

\* C6: sync is idempotent: after sync(block) for a block of the window a
\* second sync(block) leaves the same ImmatureMiningReward rows and the same
\* summary balances as the first.
C6_SyncIdempotent ==
    call.op \in {"sync", "sync_again"} =>
        /\ SyncResult(call.block).immature_mining_rewards = immature_mining_rewards
        /\ SyncResult(call.block).immature_mining_reward_summaries
              = immature_mining_reward_summaries

\* a block whose rows are stored was synced again
C6_Witness ==
    /\ call.op = "sync_again"
    /\ \E r \in OwnRows : r.mcb_balance > 0

\* C7: sync(block) with block < begin_block or block > end_block changes
\* nothing: no ImmatureMiningReward, ImmatureMiningRewardSummary or
\* TheoryMiningReward row is added or modified and the engine's reward per
\* block is unchanged.
C7_SyncOutsideWindowIsNoOp ==
    [][(call'.op \in {"sync", "sync_again", "sync_outside"}
          /\ (call'.block < BeginBlock \/ call'.block > EndBlock))
        => UNCHANGED <<immature_mining_rewards, immature_mining_reward_summaries,
                       theory_mining_rewards, reward_per_block>>]_vars

\* sync was called for a block of the override range beyond the window, by
\* an engine that stored rows and still holds the configured reward
C7_Witness ==
    /\ call.op = "sync_outside"
    /\ call.block > EndBlock
    /\ OwnRows # {}
    /\ reward_per_block = REWARD_PER_BLOCK

\* C8: rollback(block) deletes exactly the rows of the round with
\* block_number > block and takes from the summary of each (pool, holder)
\* the sum of the deleted rows of the group; the rows with block_number <=
\* block, the rows of other rounds and the summaries of the groups without
\* a deleted row are unchanged.
C8_RollbackEffect ==
    [][call'.op \in {"rollback", "rollback_rows"} =>
        LET deleted == {r \in immature_mining_rewards :
                           /\ r.mining_round = mining_round
                           /\ r.block_number > call'.block}
        IN  /\ immature_mining_rewards' = immature_mining_rewards \ deleted
            /\ \A g \in StoredGroups :
                  SummaryOfGroup(immature_mining_reward_summaries', g)
                    = SummaryOfGroup(immature_mining_reward_summaries, g)
                        - RowsOfGroup(deleted, g)
            /\ \A s \in immature_mining_reward_summaries :
                  (\A d \in deleted : GroupOf(d) # GroupOf(s))
                     => s \in immature_mining_reward_summaries'
            /\ Cardinality(immature_mining_reward_summaries')
                  = Cardinality(immature_mining_reward_summaries)]_vars

\* a rollback deleted rows of the round and kept rows of an earlier block
\* and the rows of the other round
C8_Witness ==
    /\ call.op = "rollback_rows"
    /\ OwnRows # {}
    /\ immature_mining_rewards # OwnRows

\* the tables of an engine that syncs the blocks from..to in order
RECURSIVE synced_in_order(_, _, _)
synced_in_order(state, from, to) ==
    IF from > to THEN state
    ELSE synced_in_order(
            sync_result(mining_round, from, state.reward_per_block,
                state.immature_mining_rewards,
                state.immature_mining_reward_summaries,
                state.theory_mining_rewards, token_balances, position_balances,
                perp_share_amm_proxy_map, chain_link_price_events),
            from + 1, to)

\* the tables after an uninterrupted run of a new engine up to block n
Uninterrupted(n) ==
    synced_in_order(
        [reward_per_block |-> REWARD_PER_BLOCK,
         immature_mining_rewards |-> InitialRewards(mining_round),
         immature_mining_reward_summaries |-> InitialSummaries(mining_round),
         theory_mining_rewards |-> {}],
        BeginBlock, n)

SameAsUninterrupted(run) ==
    /\ immature_mining_rewards = run.immature_mining_rewards
    /\ \A g \in StoredGroups :
          SummaryOfGroup(immature_mining_reward_summaries, g)
             = SummaryOfGroup(run.immature_mining_reward_summaries, g)

\* C9: rollback round trip: after the blocks up to N were synced in order,
\* rollback(B) was called for a block B < N of the window and the blocks
\* B+1..N were synced again, the ImmatureMiningReward rows and the summary
\* balances are those of a run up to N without the rollback.
C9_RollbackRoundTrip ==
    (trip.clean /\ trip.rollbacks = 1 /\ trip.tip = trip.peak)
        => SameAsUninterrupted(Uninterrupted(trip.peak))

(***************************************************************************)
(* Claims about the unpaid set and the life of a transaction.              *)
(***************************************************************************)
\* what the round still owes h: the mature reward less h's payments of it
Owed(h) == MatureBalance(h) - PaidAmount(round_payments, MINING_ROUND, h)

\* the positions of h in the unpaid set the pay phase reads
ListedAt(h) == {k \in 1..Len(Unpaid.miners) : Unpaid.miners[k] = h}

\* C11: the unpaid set read by the pay phase lists a holder exactly when
\* its mature reward of the round less its payments of the round is > 0,
\* once and with that difference as the amount; a holder without a previous
\* payment counts as paid 0 and is listed with its full mature reward.
C11_UnpaidSetIsOwed ==
    pc = "pay" =>
        /\ ~Unpaid.raised
        /\ \A h \in Holders :
              /\ Owed(h) > 0 => Cardinality(ListedAt(h)) = 1
              /\ Owed(h) <= 0 => ListedAt(h) = {}
              /\ \A k \in ListedAt(h) : Unpaid.amounts[k] = Owed(h)

\* the receipt of the transaction with this hash was observed as SUCCESS
ObservedSuccess(hash) ==
    \E k \in 1..Len(payment_transactions) :
        /\ payment_transactions[k].transaction_hash = hash
        /\ payment_transactions[k].status = SUCCESS

\* what h was sent for the round by transactions observed as SUCCESS
ObservedSent(h) ==
    PaidAmount(round_payments, MINING_ROUND, h)
    + SeqSum([i \in 1..Len(chain) |->
                IF ObservedSuccess(i)
                THEN AmountTo(chain[i], h) ELSE 0])

\* a cycle observed the SUCCESS receipt of a transaction that paid h what
\* was left of its mature reward
SettledInFull(h) ==
    /\ \E i \in 1..Len(chain) :
          /\ ObservedSuccess(i)
          /\ AmountTo(chain[i], h) > 0
    /\ ObservedSent(h) = MatureBalance(h)

\* C12: once a cycle has observed the SUCCESS receipt of a transaction that
\* paid h its full unpaid amount (no further reward maturing), h is not in
\* the unpaid set a later pay phase reads, hence in no later submission.
C12_PaidHolderDropsOut ==
    pc = "pay" => \A h \in Holders : SettledInFull(h) => ListedAt(h) = {}

\* the stored rows of the transactions the cycles submitted whose receipt
\* reported failure
FailedRows ==
    {k \in 1..Len(payment_transactions) :
        payment_transactions[k].status = FAILED}

\* C13: a transaction whose receipt reports failure becomes FAILED with no
\* Payment or RoundPayment row written for it; every holder of its payload
\* stays in the unpaid set; and a transaction submitted after it contains
\* those holders and has a strictly greater nonce.
C13_FailedTransactionIsRetried ==
    /\ \A i \in 1..Len(chain) :
          ObservedSuccess(i) => chain[i].status = "success"
    /\ \A k \in 1..Len(payment_transactions) :
          (/\ chain[payment_transactions[k].transaction_hash].status = "failed"
           /\ payment_transactions[k].status \notin {INIT, PENDING})
             => payment_transactions[k].status = FAILED
    /\ \A k \in FailedRows :
        LET t == payment_transactions[k]
        IN  /\ \A p \in 1..Len(payments) : payments[p].transaction_id # t.id
            /\ \A q \in 1..Len(round_payments) :
                  round_payments[q].payment_id = 0
            /\ pc = "pay" => Range(t.miners) \subseteq Range(Unpaid.miners)
            /\ \A j \in (t.transaction_hash + 1)..Len(chain) :
                  /\ Range(t.miners) \subseteq Range(chain[j].miners)
                  /\ chain[j].nonce > t.transaction_nonce

\* a transaction failed, its receipt was observed, and a later cycle
\* submitted the same holders again
C13_Witness ==
    \E k \in FailedRows :
        /\ payment_transactions[k].transaction_hash < Len(chain)
        /\ pc = "wait"

\* the life of the stored PaymentTransaction rows over one step, for the
\* status a row has while its transaction waits for the receipt: rows are
\* only added; a new row has that status and the hash of a submitted
\* transaction; a status changes only from that status, to SUCCESS or FAILED
\* as the receipt of the mined transaction says; SUCCESS and FAILED are final
Lifecycle(waiting) ==
    /\ Len(payment_transactions') >= Len(payment_transactions)
    /\ \A k \in 1..Len(payment_transactions') :
          LET new == payment_transactions'[k]
          IN  IF k > Len(payment_transactions)
              THEN /\ new.status = waiting
                   /\ new.transaction_hash \in 1..Len(chain')
              ELSE LET old == payment_transactions[k]
                   IN  old.status # new.status =>
                          /\ old.status = waiting
                          /\ chain[old.transaction_hash].status # "unmined"
                          /\ new.status =
                                IF chain[old.transaction_hash].status = "success"
                                THEN SUCCESS ELSE FAILED

\* C14: every PaymentTransaction follows INIT -> PENDING -> SUCCESS or
\* FAILED: it is PENDING once it is submitted and its hash is known, stays
\* PENDING when the receipt wait times out, reaches SUCCESS or FAILED only
\* from PENDING when a receipt is observed, and never leaves SUCCESS or
\* FAILED.
C14_LifecycleThroughPending == [][Lifecycle(PENDING)]_vars

\* C15: when save_payments_info processes a SUCCESS receipt for a
\* transaction whose payload has k (holder, amount) pairs, the committed
\* state holds exactly k new Payment rows and exactly k new RoundPayment
\* rows of the configured round, one of each per pair, each RoundPayment
\* referencing its Payment.
C15_RowsPerPaidPair ==
    [][\A t \in 1..Len(payment_transactions) :
          (/\ payment_transactions[t].status # SUCCESS
           /\ payment_transactions'[t].status = SUCCESS)
          => LET tx == payment_transactions[t]
                 k == Len(tx.miners)
                 np == Len(payments)
                 nr == Len(round_payments)
             IN  /\ Len(payments') = np + k
                 /\ Len(round_payments') = nr + k
                 /\ \A i \in 1..k :
                       /\ payments'[np + i].holder = tx.miners[i]
                       /\ payments'[np + i].amount = tx.amounts[i]
                       /\ payments'[np + i].transaction_id = tx.id
                       /\ round_payments'[nr + i].mining_round = MINING_ROUND
                       /\ round_payments'[nr + i].holder = tx.miners[i]
                       /\ round_payments'[nr + i].amount = tx.amounts[i]
                       /\ round_payments'[nr + i].payment_id = payments'[np + i].id]_vars

(***************************************************************************)
(* Claims about the rounds and the fork blocks.                            *)
(***************************************************************************)
\* the step is a sync call for a block of the mining window
SyncedInWindow == call'.op \in {"sync", "sync_again"}

\* C16: for every round, sync of a block b with 11601000 <= b < 11685000
\* computes the pool rewards with reward_per_block = 0.1875.
C16_OverrideRewardPerBlock ==
    [][(/\ SyncedInWindow
        /\ call'.block >= OverrideBegin
        /\ call'.block < OverrideEnd)
       => reward_per_block' = Frac(1875, 10000)]_vars

\* the rows the step adds, and what they give a pool
NewRows == immature_mining_rewards' \ immature_mining_rewards

HasRows(pool_name) == \E r \in NewRows : r.pool_name = pool_name

PoolSum(pool_name) == SumBalance({r \in NewRows : r.pool_name = pool_name})

AmmNames == {"ETH_PERP", "LINK_PERP", "COMP_PERP", "LEND_PERP", "SNX_PERP",
             "BTC_PERP"}

Held(token) == get_total_share_token_amount(token_balances, token) # 0

AllPoolsHeld == \A t \in ShareTokens : Held(t)

\* h1 is the only share holder
SoleHolder == \A t \in ShareTokens : token_balances[t]["h2"] = 0

\* the step is the first sync of the fork block (the last block of the
\* window) or of the block before it, and it stored rows
ForkSynced ==
    /\ call'.op = "sync"
    /\ call'.block \in {end_block - 1, end_block}
    /\ NewRows # {}

\* the synced block is the fork block
Post == call'.block = end_block

\* the AMM group of the round at the synced block
AmmGroup == pool_groups(mining_round, call'.block)[1]

\* C17: at each fork block T the comparison is >=: sync of block T uses the
\* post-fork pool set, proportion or formula, sync of block T-1 the
\* pre-fork one.  Xia rebalance: a holder without a position row has a
\* zero effective share from T on and its raw share before.  SHANG link,
\* ZHOU comp/lend/snx, QIN btc: the pool has rows from T on; from the btc
\* fork on the small pools share 0.2 by five.  ZHOU begin: from T on the
\* effective share is the raw share and the theory rewards are written.
\* QIN begin: from T on a pool's reward is percent * reward_per_block *
\* amm_pool_proportion.  QIN reduce: reward_per_block is 0.2 from T on, 2
\* before.
C17_ForkBlockIsPostFork ==
    [][ForkSynced =>
        /\ end_block = XIA_REBALANCE_HARD_FORK_BLOCK_NUMBER =>
              \A r \in NewRows :
                 (r.pool_name \in AmmNames /\ r.holder = "h2")
                    => (r.mcb_balance = 0 <=> Post)
        /\ (/\ end_block = SHANG_REWARD_LINK_POOL_BLOCK_NUMBER
            /\ mining_round = "SHANG"
            /\ Held(LINK_PERP_SHARE_TOKEN_ADDRESS))
              => (HasRows("LINK_PERP") <=> Post)
        /\ (end_block = ZHOU_BEGIN_BLOCK_NUMBER /\ mining_round # "HAN") =>
              /\ \A r \in NewRows :
                    (r.pool_name \in AmmNames /\ r.holder = "h2")
                       => (r.mcb_balance > 0 <=> Post)
              /\ IF Post
                 THEN \E t \in theory_mining_rewards' :
                         t.mining_round = mining_round
                 ELSE theory_mining_rewards' = theory_mining_rewards
        /\ (/\ end_block = ZHOU_REWARD_COMP_POOL_BLOCK_NUMBER
            /\ mining_round = "ZHOU"
            /\ Held(COMP_PERP_SHARE_TOKEN_ADDRESS))
              => (HasRows("COMP_PERP") <=> Post)
        /\ (/\ end_block = ZHOU_REWARD_LEND_POOL_BLOCK_NUMBER
            /\ mining_round = "ZHOU"
            /\ Held(LEND_PERP_SHARE_TOKEN_ADDRESS))
              => (HasRows("LEND_PERP") <=> Post)
        /\ (/\ end_block = ZHOU_REWARD_SNX_POOL_BLOCK_NUMBER
            /\ mining_round = "ZHOU"
            /\ Held(SNX_PERP_SHARE_TOKEN_ADDRESS))
              => (HasRows("SNX_PERP") <=> Post)
        /\ (/\ end_block = QIN_BEGIN_BLOCK_NUMBER
            /\ mining_round \in {"SHANG", "ZHOU", "QIN"}
            /\ AllPoolsHeld /\ SoleHolder)
              => (PoolSum("ETH_PERP")
                    = WadMul(WadMul(AmmGroup.pool_reward_percent, reward_per_block'),
                             AmmGroup.pools[1].amm_pool_proportion)
                  <=> Post)
        /\ (end_block = QIN_REDUCE_REWARD_BLOCK_NUMBER /\ mining_round = "QIN")
              => reward_per_block' = IF Post THEN Frac(2, 10) ELSE Dec(2)
        /\ (/\ end_block = QIN_REWARD_BTC_POOL_BLOCK_NUMBER
            /\ mining_round = "QIN"
            /\ AllPoolsHeld /\ SoleHolder)
              => /\ HasRows("BTC_PERP") <=> Post
                 /\ PoolSum("LINK_PERP")
                      = WadMul(WadMul(Frac(5, 10), reward_per_block'),
                               IF Post THEN Frac(2, 50) ELSE Frac(2, 40))
       ]_vars

\* a QIN engine has synced the btc fork block and the block before it: the
\* BTC pool has rows at the fork block only
C17_Witness ==
    /\ mining_round = "QIN"
    /\ end_block = QIN_REWARD_BTC_POOL_BLOCK_NUMBER
    /\ \E r \in immature_mining_rewards :
          r.pool_name = "BTC_PERP" /\ r.block_number = end_block
    /\ \E r \in immature_mining_rewards :
          r.pool_name = "LINK_PERP" /\ r.block_number = end_block - 1

\* the constants the factor is stated to use in a round
stated_m(round) ==
    IF round = "ZHOU" THEN ZHOU_M ELSE IF round = "QIN" THEN QIN_M ELSE 2

stated_n(round) ==
    IF round = "ZHOU" THEN ZHOU_N ELSE IF round = "QIN" THEN QIN_N ELSE 102500

\* 1 + min(mcb_weight, 1) * M
stated_factor(round, reward, holder_mcb_balance) ==
    LET mcb_weight ==
            IF reward = 0 THEN 0
            ELSE WadDiv(holder_mcb_balance, reward * stated_n(round))
    IN  Dec(1) + (IF mcb_weight < Dec(1) THEN mcb_weight ELSE Dec(1))
                    * stated_m(round)

\* C18: the reward factor of a holder is 1 + min(mcb_weight, 1) * M with
\* mcb_weight = holder_mcb_balance / (holder_total_amm_reward * N), 0 when
\* that reward is 0, where (M, N) is (ZHOU_M, ZHOU_N) in round ZHOU,
\* (QIN_M, QIN_N) in round QIN and (2, 102500) in any other round.  The
\* theory reward a sync stores for a holder is the holder_total_amm_reward
\* its factor was computed from.
C18_RewardFactor ==
    \A t \in theory_mining_rewards :
        t.mining_round = mining_round =>
            get_holder_reward_factor(mining_round, t.mcb_balance,
                get_holder_mcb_balance(token_balances).balance[t.holder])
            = stated_factor(mining_round, t.mcb_balance,
                get_holder_mcb_balance(token_balances).balance[t.holder])

\* no PositionBalance row belongs to a share holder
NoHolderPosition == \A p \in position_balances : p.holder = AMM_PROXY

\* h1 holds the whole ETH_PERP share, 1 of 1
SoleEthHolder ==
    token_balances[ETH_PERP_SHARE_TOKEN_ADDRESS] = Shares(1, 0)

\* C19: in round XIA at a block >= xia_rebalance_hard_fork_block, with the
\* single pool ETH_PERP, one share holder (share 1 of total 1), an AMM
\* position of -100 and no PositionBalance row of the holder, sync gives the
\* holder an effective share equal to its raw share and inserts one
\* ImmatureMiningReward row for it with amount reward_per_block.
C19_XiaHolderWithoutPosition ==
    (/\ mining_round = "XIA"
     /\ call.op = "sync"
     /\ call.block = end_block
     /\ end_block = XIA_REBALANCE_HARD_FORK_BLOCK_NUMBER
     /\ SoleEthHolder
     /\ NoHolderPosition)
    => {[holder |-> r.holder, mcb_balance |-> r.mcb_balance] :
           r \in {x \in immature_mining_rewards :
                     /\ x.block_number = call.block
                     /\ x.pool_name = "ETH_PERP"}}
       = {[holder |-> "h1", mcb_balance |-> reward_per_block]}

\* the pools sync handles at a block
SyncedPools(block_number) ==
    LET groups == pool_groups(mining_round, block_number)
    IN  UNION {Range(groups[g].pools) : g \in 1..Len(groups)}

RowsOf(pool, block_number) ==
    {r \in immature_mining_rewards :
        r.block_number = block_number /\ r.pool_name = pool.pool_name}

\* the imbalance rules of _get_effective_share_info cover the round at the
\* block of the call
EffectiveShareDefined ==
    \/ mining_round \in {"XIA", "SHANG", "HAN"}
    \/ call.block >= ZHOU_BEGIN_BLOCK_NUMBER
    \/ call.block < XIA_REBALANCE_HARD_FORK_BLOCK_NUMBER

\* C20: in every round and at every block of the window a pool whose share
\* token has no holders is skipped cleanly: sync does not raise, stores no
\* row of that pool and stores the rows of the other pools of the call.
\* The share holder h1 has a position row that balances the AMM's, and the
\* round is one whose effective share is defined at the block.
C20_EmptyPoolSkipped ==
    (call.op = "sync" /\ ~NoHolderPosition /\ EffectiveShareDefined) =>
        \A p, q \in SyncedPools(call.block) :
            (/\ ~Held(p.pool_share_token_address)
             /\ Held(q.pool_share_token_address))
                => /\ RowsOf(p, call.block) = {}
                   /\ RowsOf(q, call.block) # {}

\* C21: the cached nonce advances in lockstep with the PaymentTransaction
\* inserts: in the pay phase of a running process the nonce is incremented
\* exactly when a PaymentTransaction row is inserted, so a cycle whose
\* disperse call raises or whose row insert fails leaves the nonce as it was.
C21_NonceInLockstepWithInserts ==
    [][(pc = "pay" /\ ~Restart) =>
          /\ nonce' \in {nonce, nonce + 1}
          /\ nonce' = nonce + 1
                <=> Len(payment_transactions') = Len(payment_transactions) + 1
      ]_vars

\* the synced block lies in the era of the engine's round: the rounds
\* follow one another, ZHOU begins at zhou_begin and QIN at qin_begin
InEra ==
    \/ /\ mining_round \in {"XIA", "SHANG"}
       /\ call'.block < ZHOU_BEGIN_BLOCK_NUMBER
    \/ /\ mining_round = "ZHOU"
       /\ call'.block >= ZHOU_BEGIN_BLOCK_NUMBER
       /\ call'.block < QIN_BEGIN_BLOCK_NUMBER
    \/ /\ mining_round \in {"QIN", "HAN"}
       /\ call'.block >= QIN_BEGIN_BLOCK_NUMBER

\* what the rounding of the quotients can add to the sum of the rows: with
\* a single share holder no quotient is rounded, with several the sum is
\* within one unit of the last digit per row
Rounding == IF SoleHolder THEN 0 ELSE Cardinality(NewRows)

\* C22 as stated: the amounts of all the ImmatureMiningReward rows one sync
\* call inserts, AMM and UNISWAP pools together and after the factor
\* weighting, sum to at most the reward_per_block in force for the block,
\* in every round and at every block of the window.  With a single share
\* holder no quotient of the computation is rounded.
C22_BudgetCap ==
    [][(SyncedInWindow /\ SoleHolder)
          => SumBalance(NewRows) <= reward_per_block']_vars

\* C22: for a round synced at the blocks of its own era, the amounts of all
\* the ImmatureMiningReward rows one sync call inserts sum to at most the
\* reward_per_block in force for the block, up to the rounding of the
\* amounts, also when the UNISWAP pools hold no MCB.
C22_BudgetCapInEra ==
    [][(SyncedInWindow /\ InEra)
          => SumBalance(NewRows) <= reward_per_block' + Rounding]_vars

\* a QIN engine has synced a block of its era: the rows of the AMM pools
\* and of the UNISWAP pool it stored for the block sum to the whole budget
C22_Witness ==
    /\ mining_round = "QIN"
    /\ call.op = "sync"
    /\ call.block >= QIN_BEGIN_BLOCK_NUMBER
    /\ RowsOf(ETH_PERP, call.block) # {}
    /\ RowsOf(UNISWAP_MCB_ETH, call.block) # {}
    /\ SumBalance({r \in immature_mining_rewards : r.block_number = call.block})
          = reward_per_block

\* C23: the reward_per_block sync applies depends on the round and the block
\* only, not on the blocks the engine synced before: in a round other than
\* QIN a block outside [11601000, 11685000) is computed with the configured
\* reward_per_block, also after a block inside that range was synced.
C23_RewardPerBlockHasNoMemory ==
    [][(/\ SyncedInWindow
        /\ mining_round # "QIN"
        /\ (call'.block < OverrideBegin \/ call'.block >= OverrideEnd))
          => reward_per_block' = REWARD_PER_BLOCK]_vars

\* C24: run() never calls disperse_token while a PaymentTransaction row is
\* in INIT or PENDING: a transaction is submitted only when every row
\* inserted before has a terminal status, also when saving the outcome of a
\* receipt failed in the reconcile phase.
C24_NoDisperseWhileUnsettled ==
    [][Len(chain') = Len(chain) + 1
          => PendingRows(payment_transactions) = <<>>]_vars

\* C25: in every batch passed to disperse_token each holder address appears
\* at most once, also when the holder has paid-amount summary rows of more
\* than one mining round.
C25_HolderOncePerBatch ==
    \A i \in 1..Len(chain) :
        \A j, k \in 1..Len(chain[i].miners) :
            j # k => chain[i].miners[j] # chain[i].miners[k]

====
